---- MODULE Spec2Model ----
(***************************************************************************)
(* A model of the Polar MCP server's preprocessing engine and of the       *)
(* per-day fan-out of getActivities.                                       *)
(*                                                                         *)
(* Optional values (number | null, T | undefined) are sequences of length  *)
(* at most one: <<>> is null/undefined, <<v>> is the value v.              *)
(* Decimal numbers are integers in a stated unit (hundredths, thousandths).*)
(***************************************************************************)
EXTENDS Integers, Sequences, FiniteSets, TLC

VARIABLES
  mode,            \* which entry point this behaviour exercises
  \* ---- getActivities (tools/activities) ----
  dates,           \* generateDateRange's result: the requested dates, ascending
  i,               \* the batch loop's index into dates (0-based)
  pcMain,          \* getActivities' position: loop | awaitAll | done | failed
  task,            \* per date: the state of its fetchDate promise
  taskResult,      \* per date: what fetchDate resolved to (<<>> is null)
  results,         \* getActivities' results array
  processed,       \* getActivities' filtered output
  primaryOutcome,  \* per date: how the upstream answered the activity request
  samplesOutcome,  \* per date: how the upstream answered the samples request
  \* ---- parseSampleData / filterNulls (services/api-client) ----
  tokenIds,        \* the tokens the raw string was joined from (table rows)
  raw,             \* the raw delimited string, a sequence of characters
  decoded,         \* parseSampleData(raw), once computed
  filtered,        \* filterNulls(decoded), once computed
  decPc,           \* input | decoded | filtered
  \* ---- preprocessSamples (services/api-client) ----
  rawSamples,      \* the exercise's sample blocks, in the order received
  sampleResult,    \* preprocessSamples(rawSamples), once computed
  smpPc,           \* input | done
  \* ---- parseSleepTime over one session (tools/sleep) ----
  sessStart,       \* the session's start, <<hour, minute>> of sleep_start_time
  sessOffsets,     \* whole hours from the start to each sample, in time order
  sessClock,       \* the samples' clock times <<hour, minute>>, in time order
  sessNorm,        \* parseSleepTime of each clock time
  \* ---- computeTrendSlope (tools/sleep) ----
  trendSamples,    \* Record<string, number>: entries in insertion order
  trendStartHour,  \* sleepStartHour
  trendSlope,      \* computeTrendSlope's result, once computed
  trendPc,         \* input | done
  \* ---- the merged summary record of one entity ----
  entityKind,      \* exercise | activity | sleep | recharge
  entity,          \* the upstream entity, with what its handler passes along
  merged,          \* the processed record, once made
  mergePc,         \* input | done
  \* ---- one call of a summarizer (heart-rate buckets, zones, splits, ...) ----
  callee,          \* the function called
  callArgs,        \* its argument, or the record of its arguments
  callResult,      \* its return value, once it has returned
  callPc,          \* input | done
  \* ---- PolarApiClient.withRetry (services/api-client) ----
  context,         \* the context string: which request is made
  attempt,         \* the loop counter
  lastError,       \* the last 429 error caught, if any
  delay,           \* the delay of the last back-off, in ms
  operation,       \* how the awaited operation() settled, once it has
  retrySettled,    \* what withRetry returned or threw, once it has
  retryPc,         \* call | caught | sleep | returned | thrown
  \* ---- the tool callback registered in index.ts ----
  toolDef,         \* the tool called
  toolArgs,        \* the arguments the server passes in
  toolParsed,      \* inputSchema.parse's result, once it has passed
  toolSettled,     \* how parse or the handler ended: returned or threw what
  toolResponse,    \* the response handed back to the server, once made
  toolPc           \* parse | handler | responded

fetchVars == <<dates, i, pcMain, task, taskResult, results, processed,
               primaryOutcome, samplesOutcome>>

decodeVars == <<tokenIds, raw, decoded, filtered, decPc>>

sampleVars == <<rawSamples, sampleResult, smpPc>>

sessionVars == <<sessStart, sessOffsets, sessClock, sessNorm>>
trendVars == <<trendSamples, trendStartHour, trendSlope, trendPc>>

mergeVars == <<entityKind, entity, merged, mergePc>>

callVars == <<callee, callArgs, callResult, callPc>>

retryVars == <<context, attempt, lastError, delay, operation, retrySettled, retryPc>>

toolVars == <<toolDef, toolArgs, toolParsed, toolSettled, toolResponse, toolPc>>

vars ==
  <<mode, fetchVars, decodeVars, sampleVars, sessionVars, trendVars, mergeVars,
    callVars, retryVars, toolVars>>

----------------------------------------------------------------------------
(* Generic helpers *)

None == <<>>
Some(v) == <<v>>
IsSome(o) == Len(o) = 1
Val(o) == o[1]

Min2(a, b) == IF a <= b THEN a ELSE b
Max2(a, b) == IF a >= b THEN a ELSE b

RECURSIVE SumSeq(_)
SumSeq(s) == IF s = <<>> THEN 0 ELSE Head(s) + SumSeq(Tail(s))

\* Array.prototype.filter for a predicate given as the set of kept elements' indices
RECURSIVE SelectIdx(_, _, _)
SelectIdx(s, keep, k) ==
  IF k > Len(s) THEN <<>>
  ELSE (IF k \in keep THEN <<s[k]>> ELSE <<>>) \o SelectIdx(s, keep, k + 1)

\* Math.round(n / d) for d > 0: JavaScript rounds halves towards +Infinity
RoundDiv(n, d) == (2 * n + d) \div (2 * d)

----------------------------------------------------------------------------
(* Bounds *)

MaxDates == 6
MaxTokens == 3
MaxBlocks == 2
MaxPoints == 3
MaxEntries == 3
MaxHrSamples == 3
MaxEvents == 3
MaxSplitSamples == 4
MaxPowerSamples == 4
MaxRrSamples == 4
MaxAltitudeSamples == 4
MaxStepSamples == 3
MaxHypnoPoints == 3
MaxFineEvents == 4

----------------------------------------------------------------------------
(* tools/activities: aggregateHourlySteps, computeZoneDurations,           *)
(* preprocessActivity.  A timestamp is the number of seconds since the     *)
(* midnight that starts the first supplied day.                            *)

HourOfMut(timestamp) == timestamp \div 3600
HourOf(timestamp) == (timestamp \div 3600) % 24

\* const buckets: Record<number, number>, filled in sample order
RECURSIVE StepBuckets(_)
StepBuckets(samples) ==
  IF samples = <<>> THEN [h \in {} |-> 0]
  ELSE LET n == Len(samples)
           rest == StepBuckets(SubSeq(samples, 1, n - 1))
           hour == HourOf(samples[n].timestamp)
           prev == IF hour \in DOMAIN rest THEN rest[hour] ELSE 0
       IN [h \in DOMAIN rest \cup {hour} |->
             IF h = hour THEN prev + samples[n].steps ELSE rest[h]]

\* Object.entries(...).map(...).filter(steps > 0).sort(by hour)
RECURSIVE HourlyFrom(_, _)
HourlyFrom(buckets, h) ==
  IF h > 23 THEN <<>>
  ELSE (IF h \in DOMAIN buckets /\ buckets[h] > 0
          THEN <<[hour |-> h, steps |-> buckets[h]]>> ELSE <<>>)
       \o HourlyFrom(buckets, h + 1)

aggregateHourlySteps(samples) == HourlyFrom(StepBuckets(samples), 0)

zoneMap == {"SEDENTARY", "LIGHT", "MODERATE", "VIGOROUS"}

RECURSIVE ZoneSecondsMut(_, _, _)
ZoneSecondsMut(samples, zone, k) ==
  IF k > Len(samples) - 1 THEN 0
  ELSE LET delta == samples[k + 1].timestamp - samples[k].timestamp
       IN (IF samples[k + 1].zone = zone /\ zone \in zoneMap /\ delta > 0
             THEN delta ELSE 0)
          + ZoneSecondsMut(samples, zone, k + 1)
\* the seconds accumulated into one category by the loop over adjacent pairs
RECURSIVE ZoneSeconds(_, _, _)
ZoneSeconds(samples, zone, k) ==
  IF k > Len(samples) - 1 THEN 0
  ELSE LET delta == samples[k + 1].timestamp - samples[k].timestamp
       IN (IF samples[k].zone = zone /\ zone \in zoneMap /\ delta > 0
             THEN delta ELSE 0)
          + ZoneSeconds(samples, zone, k + 1)

\* (the variant rounds every interval before adding it)
computeZoneDurationsMut(samples) ==
  LET rounded(zone) ==
        SumSeq([k \in 1..(Len(samples) - 1) |->
          LET delta == samples[k + 1].timestamp - samples[k].timestamp
          IN IF samples[k].zone = zone /\ delta > 0 THEN RoundDiv(delta, 60) ELSE 0])
  IN [sedentary_minutes |-> rounded("SEDENTARY"),
      light_minutes     |-> rounded("LIGHT"),
      moderate_minutes  |-> rounded("MODERATE"),
      vigorous_minutes  |-> rounded("VIGOROUS")]
computeZoneDurations(samples) ==
  [sedentary_minutes |-> RoundDiv(ZoneSeconds(samples, "SEDENTARY", 1), 60),
   light_minutes     |-> RoundDiv(ZoneSeconds(samples, "LIGHT", 1), 60),
   moderate_minutes  |-> RoundDiv(ZoneSeconds(samples, "MODERATE", 1), 60),
   vigorous_minutes  |-> RoundDiv(ZoneSeconds(samples, "VIGOROUS", 1), 60)]

ZeroZones ==
  [sedentary_minutes |-> 0, light_minutes |-> 0,
   moderate_minutes |-> 0, vigorous_minutes |-> 0]

\* activity: [date, steps]; samples: an optional [steps, activity_zones],
\* each of the two an optional sample list
preprocessActivity(activity, samples) ==
  [date |-> activity.date,
   steps |-> activity.steps,
   hourly_steps |->
     IF IsSome(samples) /\ IsSome(Val(samples).steps)
       THEN aggregateHourlySteps(Val(Val(samples).steps)) ELSE <<>>,
   zone_summary |->
     IF IsSome(samples) /\ IsSome(Val(samples).activity_zones)
       THEN computeZoneDurations(Val(Val(samples).activity_zones))
       ELSE ZeroZones]

----------------------------------------------------------------------------
(* tools/activities: getActivities *)

CONCURRENCY == 5

\* generateDateRange(from, to): the days from..to, ascending; a date is its
\* day number, n is the number of days in the range
generateDateRange(n) == [k \in 1..n |-> k]

\* dates.slice(i, i + CONCURRENCY), as the set of its (1-based) positions
BatchMut(ds, idx) == (idx + 1)..Min2(idx + CONCURRENCY + 1, Len(ds))
Batch(ds, idx) == (idx + 1)..Min2(idx + CONCURRENCY, Len(ds))

\* what the upstream delivers for a day
UpstreamActivity(d) == [date |-> d, steps |-> 1000 + d]
UpstreamSamples(d) ==
  [steps |-> Some(<<[timestamp |-> 7 * 3600, steps |-> 40 + d]>>),
   activity_zones |-> Some(<<[timestamp |-> 0, zone |-> "LIGHT"],
                             [timestamp |-> 600, zone |-> "SLEEP"]>>)]

\* the first catch of fetchDate: return null
OnPrimaryFailureMut(d) == [state |-> "rejected", value |-> None]
OnPrimaryFailure(d) == [state |-> "fulfilled", value |-> None]

\* the second catch of fetchDate: samples stay null, the day is still processed
OnSamplesFailureMut(d) == [state |-> "fulfilled", value |-> None]
OnSamplesFailure(d) ==
  [state |-> "fulfilled",
   value |-> Some(preprocessActivity(UpstreamActivity(d), None))]

Outstanding == {d \in DOMAIN task : task[d] \in {"primary", "samples"}}

\* Promise.all settles when one promise rejects or all have fulfilled
AllSettledMut(batch) ==
  IF \E d \in batch : task[d] = "rejected" THEN TRUE
  ELSE \E d \in batch : task[d] = "fulfilled"
AllSettled(batch) ==
  IF \E d \in batch : task[d] = "rejected" THEN TRUE
  ELSE \A d \in batch : task[d] = "fulfilled"

\* results.filter((r) => r !== null)
RECURSIVE FilterNonNull(_)
FilterNonNull(rs) ==
  IF rs = <<>> THEN <<>>
  ELSE (IF IsSome(Head(rs)) THEN <<Val(Head(rs))>> ELSE <<>>)
       \o FilterNonNull(Tail(rs))

RECURSIVE BatchResults(_, _)
BatchResults(lo, hi) ==
  IF lo > hi THEN <<>> ELSE <<taskResult[lo]>> \o BatchResults(lo + 1, hi)

FetchIdle ==
  /\ dates = <<>> /\ i = 0 /\ pcMain = "off"
  /\ task = <<>> /\ taskResult = <<>> /\ results = <<>> /\ processed = <<>>
  /\ primaryOutcome = <<>> /\ samplesOutcome = <<>>

FetchInit ==
  /\ \E n \in 0..MaxDates : dates = generateDateRange(n)
  /\ i = 0
  /\ pcMain = "loop"
  /\ task = [d \in DOMAIN dates |-> "notStarted"]
  /\ taskResult = [d \in DOMAIN dates |-> None]
  /\ results = <<>>
  /\ processed = <<>>
  /\ primaryOutcome = [d \in DOMAIN dates |-> "none"]
  /\ samplesOutcome = [d \in DOMAIN dates |-> "none"]

\* batch.map(fetchDate): every fetchDate of the batch runs to its first await
StartBatch ==
  /\ mode = "fetch" /\ pcMain = "loop" /\ i < Len(dates)
  /\ task' = [d \in DOMAIN task |->
                IF d \in Batch(dates, i) THEN "primary" ELSE task[d]]
  /\ pcMain' = "awaitAll"
  /\ UNCHANGED <<mode, decodeVars, sampleVars, sessionVars, trendVars, mergeVars, callVars,
               retryVars, toolVars>>
  /\ UNCHANGED <<dates, i, taskResult, results, processed,
                 primaryOutcome, samplesOutcome>>

\* client.get(ENDPOINTS.ACTIVITY(date)) resolves: the samples request is sent
PrimaryOk(d) ==
  /\ mode = "fetch" /\ task[d] = "primary"
  /\ task' = [task EXCEPT ![d] = "samples"]
  /\ primaryOutcome' = [primaryOutcome EXCEPT ![d] = "ok"]
  /\ UNCHANGED <<mode, decodeVars, sampleVars, sessionVars, trendVars, mergeVars, callVars,
               retryVars, toolVars>>
  /\ UNCHANGED <<dates, i, pcMain, taskResult, results, processed, samplesOutcome>>

\* client.get(ENDPOINTS.ACTIVITY(date)) throws
PrimaryFail(d) ==
  /\ mode = "fetch" /\ task[d] = "primary"
  /\ task' = [task EXCEPT ![d] = OnPrimaryFailure(d).state]
  /\ taskResult' = [taskResult EXCEPT ![d] = OnPrimaryFailure(d).value]
  /\ primaryOutcome' = [primaryOutcome EXCEPT ![d] = "fail"]
  /\ UNCHANGED <<mode, decodeVars, sampleVars, sessionVars, trendVars, mergeVars, callVars,
               retryVars, toolVars>>
  /\ UNCHANGED <<dates, i, pcMain, results, processed, samplesOutcome>>

\* client.get(ENDPOINTS.ACTIVITY_SAMPLES_DATE(date)) resolves
SamplesOk(d) ==
  /\ mode = "fetch" /\ task[d] = "samples"
  /\ task' = [task EXCEPT ![d] = "fulfilled"]
  /\ taskResult' = [taskResult EXCEPT ![d] =
       Some(preprocessActivity(UpstreamActivity(dates[d]),
                               Some(UpstreamSamples(dates[d]))))]
  /\ samplesOutcome' = [samplesOutcome EXCEPT ![d] = "ok"]
  /\ UNCHANGED <<mode, decodeVars, sampleVars, sessionVars, trendVars, mergeVars, callVars,
               retryVars, toolVars>>
  /\ UNCHANGED <<dates, i, pcMain, results, processed,
                 primaryOutcome>>

\* client.get(ENDPOINTS.ACTIVITY_SAMPLES_DATE(date)) throws
SamplesFail(d) ==
  /\ mode = "fetch" /\ task[d] = "samples"
  /\ task' = [task EXCEPT ![d] = OnSamplesFailure(dates[d]).state]
  /\ taskResult' = [taskResult EXCEPT ![d] = OnSamplesFailure(dates[d]).value]
  /\ samplesOutcome' = [samplesOutcome EXCEPT ![d] = "fail"]
  /\ UNCHANGED <<mode, decodeVars, sampleVars, sessionVars, trendVars, mergeVars, callVars,
               retryVars, toolVars>>
  /\ UNCHANGED <<dates, i, pcMain, results, processed,
                 primaryOutcome>>

\* await Promise.all(...) returns (or throws); results.push(...batchResults)
\* (the variant puts the batch in front: results.unshift(...batchResults))
JoinBatchMut ==
  /\ mode = "fetch" /\ pcMain = "awaitAll"
  /\ AllSettled(Batch(dates, i))
  /\ IF \E d \in Batch(dates, i) : task[d] = "rejected"
       THEN /\ pcMain' = "failed"
            /\ UNCHANGED <<i, results>>
       ELSE /\ results' = BatchResults(i + 1, Min2(i + CONCURRENCY, Len(dates)))
                 \o results
            /\ i' = i + CONCURRENCY
            /\ pcMain' = "loop"
  /\ UNCHANGED <<mode, decodeVars, sampleVars, sessionVars, trendVars, mergeVars, callVars,
               retryVars, toolVars>>
  /\ UNCHANGED <<dates, task, taskResult, processed,
                 primaryOutcome, samplesOutcome>>
JoinBatch ==
  /\ mode = "fetch" /\ pcMain = "awaitAll"
  /\ AllSettled(Batch(dates, i))
  /\ IF \E d \in Batch(dates, i) : task[d] = "rejected"
       THEN /\ pcMain' = "failed"
            /\ UNCHANGED <<i, results>>
       ELSE /\ results' = results \o
                 BatchResults(i + 1, Min2(i + CONCURRENCY, Len(dates)))
            /\ i' = i + CONCURRENCY
            /\ pcMain' = "loop"
  /\ UNCHANGED <<mode, decodeVars, sampleVars, sessionVars, trendVars, mergeVars, callVars,
               retryVars, toolVars>>
  /\ UNCHANGED <<dates, task, taskResult, processed,
                 primaryOutcome, samplesOutcome>>

\* the loop ends: processed = results.filter(non-null), and the call returns
Finish ==
  /\ mode = "fetch" /\ pcMain = "loop" /\ i >= Len(dates)
  /\ processed' = FilterNonNull(results)
  /\ pcMain' = "done"
  /\ UNCHANGED <<mode, decodeVars, sampleVars, sessionVars, trendVars, mergeVars, callVars,
               retryVars, toolVars>>
  /\ UNCHANGED <<dates, i, task, taskResult, results,
                 primaryOutcome, samplesOutcome>>

FetchNext ==
  \/ StartBatch
  \/ \E d \in DOMAIN dates : PrimaryOk(d)
  \/ \E d \in DOMAIN dates : PrimaryFail(d)
  \/ \E d \in DOMAIN dates : SamplesOk(d)
  \/ \E d \in DOMAIN dates : SamplesFail(d)
  \/ JoinBatch
  \/ Finish

----------------------------------------------------------------------------
(* services/api-client: parseSampleData, filterNulls.  A string is a       *)
(* sequence of one-character strings.                                      *)

Digits == {"0", "1", "2", "3", "4", "5", "6", "7", "8", "9"}
WhiteSpace == {" "}

DigitVal(c) ==
  CASE c = "0" -> 0 [] c = "1" -> 1 [] c = "2" -> 2 [] c = "3" -> 3
    [] c = "4" -> 4 [] c = "5" -> 5 [] c = "6" -> 6 [] c = "7" -> 7
    [] c = "8" -> 8 [] c = "9" -> 9

\* String.prototype.split(","): one piece more than there are commas
RECURSIVE Split(_)
Split(str) ==
  IF \A k \in 1..Len(str) : str[k] # ","
    THEN <<str>>
    ELSE LET k == CHOOSE j \in 1..Len(str) :
                    str[j] = "," /\ \A l \in 1..(j - 1) : str[l] # ","
         IN <<SubSeq(str, 1, k - 1)>> \o Split(SubSeq(str, k + 1, Len(str)))

\* String.prototype.trim()
RECURSIVE TrimStart(_)
TrimStart(str) ==
  IF str # <<>> /\ Head(str) \in WhiteSpace THEN TrimStart(Tail(str)) ELSE str
RECURSIVE TrimEnd(_)
TrimEnd(str) ==
  IF str # <<>> /\ str[Len(str)] \in WhiteSpace
    THEN TrimEnd(SubSeq(str, 1, Len(str) - 1)) ELSE str
Trim(str) == TrimEnd(TrimStart(str))

RECURSIVE DigitsValue(_)
DigitsValue(str) ==
  IF str = <<>> THEN 0
  ELSE 10 * DigitsValue(SubSeq(str, 1, Len(str) - 1)) + DigitVal(str[Len(str)])

IsDigits(str) == str # <<>> /\ \A k \in 1..Len(str) : str[k] \in Digits

\* Number(str) over the modelled alphabet (digits, "-", blank, letters other
\* than a radix prefix): <<>> is NaN.  The empty and the blank string give 0.
Number(str) ==
  LET t == Trim(str) IN
  IF t = <<>> THEN Some(0)
  ELSE IF IsDigits(t) THEN Some(DigitsValue(t))
  ELSE IF Head(t) = "-" /\ IsDigits(Tail(t)) THEN Some(0 - DigitsValue(Tail(t)))
  ELSE None

\* the callback of parseSampleData's map
parseTokenMut(v) ==
  LET trimmed == Trim(v) IN
  IF trimmed = <<"N", "U", "L", "L">> \/ trimmed = <<"n", "u", "l", "l">>
    THEN None
    ELSE Number(trimmed)
parseToken(v) ==
  LET trimmed == Trim(v) IN
  IF trimmed = <<>> \/ trimmed = <<"N", "U", "L", "L">>
     \/ trimmed = <<"n", "u", "l", "l">>
    THEN None
    ELSE Number(trimmed)

parseSampleData(data) ==
  LET pieces == Split(data) IN [k \in 1..Len(pieces) |-> parseToken(pieces[k])]

\* values.filter((v) => v !== null), the values unwrapped
RECURSIVE filterNullsMut(_)
filterNullsMut(values) ==
  IF values = <<>> THEN <<>>
  ELSE (IF IsSome(Head(values)) /\ Val(Head(values)) # 0
          THEN <<Val(Head(values))>> ELSE <<>>)
       \o filterNullsMut(Tail(values))
RECURSIVE filterNulls(_)
filterNulls(values) ==
  IF values = <<>> THEN <<>>
  ELSE (IF IsSome(Head(values)) THEN <<Val(Head(values))>> ELSE <<>>)
       \o filterNulls(Tail(values))

\* The tokens raw strings are built from, each with what the contract of
\* decode says it stands for (absent, or a number).
TokenTable ==
  << [text |-> <<>>,                        means |-> None],
     [text |-> <<" ">>,                     means |-> None],
     [text |-> <<"0">>,                     means |-> Some(0)],
     [text |-> <<" ", "1", "2", " ">>,      means |-> Some(12)],
     [text |-> <<"N", "U", "L", "L">>,      means |-> None],
     [text |-> <<" ", "n", "u", "l", "l">>, means |-> None],
     [text |-> <<"a">>,                     means |-> None],
     [text |-> <<"1", "a">>,                means |-> None],
     [text |-> <<"-", "3">>,                means |-> Some(0 - 3)],
     [text |-> <<"1", " ", "2">>,           means |-> None] >>

\* Array.prototype.join(","), used only to build the inputs
RECURSIVE Join(_)
Join(ids) ==
  IF Len(ids) = 1 THEN TokenTable[ids[1]].text
  ELSE TokenTable[Head(ids)].text \o <<",">> \o Join(Tail(ids))

TokenLists == UNION {[1..n -> DOMAIN TokenTable] : n \in 1..MaxTokens}

DecodeIdle ==
  /\ tokenIds = <<>> /\ raw = <<>> /\ decoded = <<>> /\ filtered = <<>>
  /\ decPc = "off"

DecodeInit ==
  /\ tokenIds \in TokenLists
  /\ raw = Join(tokenIds)
  /\ decoded = <<>>
  /\ filtered = <<>>
  /\ decPc = "input"

Decode ==
  /\ mode = "decode" /\ decPc = "input"
  /\ decoded' = parseSampleData(raw)
  /\ decPc' = "decoded"
  /\ UNCHANGED <<mode, fetchVars, sampleVars, sessionVars, trendVars, mergeVars, callVars,
               retryVars, toolVars>>
  /\ UNCHANGED <<tokenIds, raw, filtered>>

FilterPresent ==
  /\ mode = "decode" /\ decPc = "decoded"
  /\ filtered' = filterNulls(decoded)
  /\ decPc' = "filtered"
  /\ UNCHANGED <<mode, fetchVars, sampleVars, sessionVars, trendVars, mergeVars, callVars,
               retryVars, toolVars>>
  /\ UNCHANGED <<tokenIds, raw, decoded>>

DecodeNext == Decode \/ FilterPresent

----------------------------------------------------------------------------
(* services/api-client: the per-channel processors and preprocessSamples.  *)
(* Sample values are integers in the channel's raw unit.  A field that the *)
(* code rounds to 2 decimals holds hundredths.                             *)

TEMP_SCALE == 10

\* round(n / d), in hundredths
Round2(n, d) == RoundDiv(100 * n, d)

RECURSIVE MinSeq(_)
MinSeq(s) == IF Len(s) = 1 THEN s[1] ELSE Min2(Head(s), MinSeq(Tail(s)))
RECURSIVE MaxSeq(_)
MaxSeq(s) == IF Len(s) = 1 THEN s[1] ELSE Max2(Head(s), MaxSeq(Tail(s)))

\* floor(sqrt(n)) by bisection, lo * lo <= n < hi * hi
RECURSIVE ISqrtIn(_, _, _)
ISqrtIn(n, lo, hi) ==
  IF hi - lo <= 1 THEN lo
  ELSE LET mid == (lo + hi) \div 2
       IN IF mid * mid <= n THEN ISqrtIn(n, mid, hi) ELSE ISqrtIn(n, lo, mid)
ISqrt(n) == ISqrtIn(n, 0, Min2(n, 46339) + 1)

\* round(Math.sqrt(n / d)), in hundredths, for n >= 0, d > 0:
\* round(100 x) = floor((floor(200 x) + 1) / 2)
RoundSqrt2(n, d) == (ISqrt((40000 * n) \div d) + 1) \div 2

\* the splits loop of processSpeedSplits: where each split starts and ends
\* in the distance series (1-based, inclusive)
RECURSIVE SplitLoop(_, _, _, _)
SplitLoop(distanceValues, idx, currentKm, splitStartIdx) ==
  IF idx > Len(distanceValues) THEN <<>>
  ELSE IF distanceValues[idx] >= 1000 * currentKm \/ idx = Len(distanceValues)
    THEN <<[km |-> currentKm, from |-> splitStartIdx, to |-> idx]>>
         \o SplitLoop(distanceValues, idx + 1, currentKm + 1, idx + 1)
    ELSE SplitLoop(distanceValues, idx + 1, currentKm, splitStartIdx)

SplitBounds(distanceValues) == SplitLoop(distanceValues, 1, 1, 1)

\* one SpeedSplit from the speed samples averaged into it
SpeedSplitMut(km, speedSlice) ==
  LET sum == SumSeq(speedSlice)
      n == Len(speedSlice)
  IN [km |-> km,
      pace_min_per_km |-> IF sum > 0 THEN RoundDiv(100 * sum, 60 * n) ELSE 0,
      avg_speed_kmh |-> Round2(sum, n)]
SpeedSplit(km, speedSlice) ==
  LET sum == SumSeq(speedSlice)
      n == Len(speedSlice)
  IN [km |-> km,
      pace_min_per_km |-> IF sum > 0 THEN RoundDiv(6000 * n, sum) ELSE 0,
      avg_speed_kmh |-> Round2(sum, n)]

\* speedKmh.slice(splitStartIdx, Math.min(splitEndIdx + 1, speedKmh.length))
SpeedSlice(speedValues, bound) ==
  SubSeq(speedValues, bound.from, Min2(bound.to, Len(speedValues)))

RECURSIVE SplitsFrom(_, _)
SplitsFrom(speedValues, bounds) ==
  IF bounds = <<>> THEN <<>>
  ELSE (IF SpeedSlice(speedValues, Head(bounds)) # <<>>
          THEN <<SpeedSplit(Head(bounds).km,
                            SpeedSlice(speedValues, Head(bounds)))>>
          ELSE <<>>)
       \o SplitsFrom(speedValues, Tail(bounds))

\* distanceValues is optional: None is null
processSpeedSplits(speedValues, speedRecordingRate, distanceValues) ==
  IF speedValues = <<>> THEN None
  ELSE LET splits ==
             IF IsSome(distanceValues) /\ Val(distanceValues) # <<>>
               THEN SplitsFrom(speedValues, SplitBounds(Val(distanceValues)))
               ELSE <<>>
       IN IF splits # <<>> THEN Some([splits |-> splits])
          ELSE Some([splits |-> <<SpeedSplit(0, speedValues)>>])

RECURSIVE Ascent(_)
Ascent(values) ==
  IF Len(values) <= 1 THEN 0
  ELSE (IF values[2] - values[1] > 0 THEN values[2] - values[1] ELSE 0)
       + Ascent(Tail(values))
RECURSIVE Descent(_)
Descent(values) ==
  IF Len(values) <= 1 THEN 0
  ELSE (IF values[2] - values[1] > 0 THEN 0 ELSE values[1] - values[2])
       + Descent(Tail(values))

\* (the variant reports the net drop from the highest point to the last)
processAltitudeMut(values) ==
  IF values = <<>> THEN None
  ELSE Some([total_ascent |-> Round2(Ascent(values), 1),
             total_descent |-> Round2(MaxSeq(values) - values[Len(values)], 1),
             min_elevation |-> MinSeq(values),
             max_elevation |-> MaxSeq(values)])
processAltitude(values) ==
  IF values = <<>> THEN None
  ELSE Some([total_ascent |-> Round2(Ascent(values), 1),
             total_descent |-> Round2(Descent(values), 1),
             min_elevation |-> MinSeq(values),
             max_elevation |-> MaxSeq(values)])

\* Math.ceil(30 / recordingRate), for a whole recording rate >= 1
\* (the variant takes the floor)
WindowSizeMut(recordingRate) == 30 \div recordingRate
WindowSize(recordingRate) == (30 + recordingRate - 1) \div recordingRate

\* the sums of the rolling windows: one per index i >= windowSize - 1
RECURSIVE WindowSums(_, _, _)
WindowSums(values, windowSize, k) ==
  IF k > Len(values) THEN <<>>
  ELSE <<SumSeq(SubSeq(values, k - windowSize + 1, k))>>
       \o WindowSums(values, windowSize, k + 1)

RECURSIVE SumFourth(_)
SumFourth(s) ==
  IF s = <<>> THEN 0
  ELSE Head(s) * Head(s) * Head(s) * Head(s) + SumFourth(Tail(s))

\* normalizedPower ** 4 as an exact fraction: the 4th root is not rational
NormalizedFourthMut(values, windowSize) ==
  IF Len(values) < windowSize
    THEN [num |-> SumFourth(<<SumSeq(values)>>),
          den |-> SumFourth(<<Len(values)>>),
          rollingAvgs |-> 0]
    ELSE LET sums == WindowSums(values, windowSize, windowSize)
         IN [num |-> SumFourth(sums),
             den |-> SumFourth(<<windowSize>>),
             rollingAvgs |-> Len(sums)]
NormalizedFourth(values, windowSize) ==
  IF Len(values) < windowSize
    THEN [num |-> SumFourth(<<SumSeq(values)>>),
          den |-> SumFourth(<<Len(values)>>),
          rollingAvgs |-> 0]
    ELSE LET sums == WindowSums(values, windowSize, windowSize)
         IN [num |-> SumFourth(sums),
             den |-> SumFourth(<<windowSize>>) * Len(sums),
             rollingAvgs |-> Len(sums)]

\* normalized_power and variability_index are kept as the exact fractions
\* of their 4th powers (np4, vi4), before the rounding to 2 decimals
processPower(values, recordingRate) ==
  IF values = <<>> THEN None
  ELSE LET sum == SumSeq(values)
           n == Len(values)
           np4 == NormalizedFourth(values, WindowSize(recordingRate))
       IN Some([avg_power |-> Round2(sum, n),
                max_power |-> Round2(MaxSeq(values), 1),
                np4 |-> np4,
                vi4 |-> IF sum > 0
                          THEN [num |-> np4.num * SumFourth(<<n>>),
                                den |-> np4.den * SumFourth(<<sum>>)]
                          ELSE [num |-> 0, den |-> 1]])

RECURSIVE SumSquaredDiffs(_)
SumSquaredDiffs(values) ==
  IF Len(values) <= 1 THEN 0
  ELSE (values[2] - values[1]) * (values[2] - values[1])
       + SumSquaredDiffs(Tail(values))
RECURSIVE Nn50Count(_)
Nn50Count(values) ==
  IF Len(values) <= 1 THEN 0
  ELSE (IF values[2] - values[1] > 50 \/ values[1] - values[2] > 50
          THEN 1 ELSE 0)
       + Nn50Count(Tail(values))
RECURSIVE SumSquares(_)
SumSquares(s) == IF s = <<>> THEN 0 ELSE Head(s) * Head(s) + SumSquares(Tail(s))

\* variance = (n * sum(v^2) - sum(v)^2) / n^2
\* (the variant divides by n - 1, the sample variance)
processRrIntervalsMut(values) ==
  IF Len(values) < 2 THEN None
  ELSE LET n == Len(values)
           sum == SumSeq(values)
       IN Some([rmssd |-> RoundSqrt2(SumSquaredDiffs(values), n - 1),
                sdnn |-> RoundSqrt2(n * SumSquares(values) - sum * sum, n * (n - 1)),
                mean_rr |-> Round2(sum, n),
                pnn50 |-> Round2(Nn50Count(values) * 100, n - 1)])
processRrIntervals(values) ==
  IF Len(values) < 2 THEN None
  ELSE LET n == Len(values)
           sum == SumSeq(values)
       IN Some([rmssd |-> RoundSqrt2(SumSquaredDiffs(values), n - 1),
                sdnn |-> RoundSqrt2(n * SumSquares(values) - sum * sum, n * n),
                mean_rr |-> Round2(sum, n),
                pnn50 |-> Round2(Nn50Count(values) * 100, n - 1)])

\* samplesByType: the Map filled block by block, a later block of a type
\* replacing an earlier one
RECURSIVE samplesByType(_)
samplesByType(blocks) ==
  IF blocks = <<>> THEN [t \in {} |-> <<>>]
  ELSE LET n == Len(blocks)
           rest == samplesByType(SubSeq(blocks, 1, n - 1))
           sample == blocks[n]
       IN [t \in DOMAIN rest \cup {sample.sample_type} |->
             IF t = sample.sample_type
               THEN [values |-> parseSampleData(sample.data),
                     recordingRate |-> sample.recording_rate]
               ELSE rest[t]]

\* Map.prototype.get
MapGet(map, key) == IF key \in DOMAIN map THEN Some(map[key]) ELSE None

\* { avg, max } of cadence and running cadence
AvgMax(values) ==
  IF values # <<>>
    THEN Some([avg |-> Round2(SumSeq(values), Len(values)),
               max |-> MaxSeq(values)])
    ELSE None
\* { avg } of the pedaling index and the L/R balance
AvgOnlyMut(values) ==
  IF values # <<>>
    THEN Some([avg |-> Round2(SumSeq(values), Len(values))])
    ELSE Some([avg |-> 0])
AvgOnly(values) ==
  IF values # <<>>
    THEN Some([avg |-> Round2(SumSeq(values), Len(values))])
    ELSE None
\* { avg, min, max } of the air pressure
AvgMinMax(values) ==
  IF values # <<>>
    THEN Some([avg |-> Round2(SumSeq(values), Len(values)),
               min |-> MinSeq(values), max |-> MaxSeq(values)])
    ELSE None
\* temperature: every value divided by TEMP_SCALE first
Temperature(values) ==
  IF values # <<>>
    THEN Some([avg |-> Round2(SumSeq(values), TEMP_SCALE * Len(values)),
               min |-> Round2(MinSeq(values), TEMP_SCALE),
               max |-> Round2(MaxSeq(values), TEMP_SCALE)])
    ELSE None

\* the two series handed to processSpeedSplits
SpeedValues(speedData) == filterNulls(speedData.values)
DistValues(distData) ==
  IF IsSome(distData) THEN Some(filterNulls(Val(distData).values)) ELSE None

\* if (data) { const values = filterNulls(data.values); ... }
HasChannel(byType, type) == IsSome(MapGet(byType, type))
ChannelValues(byType, type) == filterNulls(Val(MapGet(byType, type)).values)

preprocessSamples(blocks) ==
  LET byType == samplesByType(blocks)
      speedData == MapGet(byType, 1)
      powerData == MapGet(byType, 4)
      Has(t) == HasChannel(byType, t)
      Values(t) == ChannelValues(byType, t)
  IN [pace |->
        IF IsSome(speedData)
          THEN processSpeedSplits(SpeedValues(Val(speedData)),
                                  Val(speedData).recordingRate,
                                  DistValues(MapGet(byType, 10)))
          ELSE None,
      cadence |-> IF Has(2) THEN AvgMax(Values(2)) ELSE None,
      altitude |-> IF Has(3) THEN processAltitude(Values(3)) ELSE None,
      power |->
        IF Has(4) THEN processPower(Values(4), Val(powerData).recordingRate)
        ELSE None,
      power_pedaling_index |-> IF Has(5) THEN AvgOnly(Values(5)) ELSE None,
      power_lr_balance |-> IF Has(6) THEN AvgOnly(Values(6)) ELSE None,
      air_pressure |-> IF Has(7) THEN AvgMinMax(Values(7)) ELSE None,
      running_cadence |-> IF Has(8) THEN AvgMax(Values(8)) ELSE None,
      temperature |-> IF Has(9) THEN Temperature(Values(9)) ELSE None,
      rr_intervals |-> IF Has(11) THEN processRrIntervals(Values(11)) ELSE None]

\* The inputs: sample blocks of every type with data strings that have no,
\* one, two or three usable samples.
SampleTypes == 1..11

ChannelStrings ==
  { <<"N", "U", "L", "L">>,
    <<"1", "2">>,
    <<"4", ",", "N", "U", "L", "L", ",", "8">>,
    <<"4", ",", "8", ",", "6">> }

DistanceStrings ==
  { <<"n", "u", "l", "l">>,
    <<"6", "0", "0", ",", "1", "2", "0", "0", ",", "1", "8", "0", "0">>,
    <<"6", "0", "0", ",", "N", "U", "L", "L", ",", "1", "8", "0", "0">>,
    <<"4", "0", "0", ",", "8", "0", "0">> }

\* the recording rate matters to the power channel alone
RatesOf(type) == IF type = 4 THEN {1, 15} ELSE {1}
StringsOf(type) == IF type = 10 THEN DistanceStrings ELSE ChannelStrings

SampleBlocks ==
  UNION { { [sample_type |-> t, recording_rate |-> r, data |-> d] :
              r \in RatesOf(t), d \in StringsOf(t) } : t \in SampleTypes }

SampleIdle == rawSamples = <<>> /\ sampleResult = <<>> /\ smpPc = "off"

SampleInit ==
  /\ rawSamples \in UNION {[1..n -> SampleBlocks] : n \in 0..MaxBlocks}
  /\ sampleResult = <<>>
  /\ smpPc = "input"

Preprocess ==
  /\ mode = "samples" /\ smpPc = "input"
  /\ sampleResult' = preprocessSamples(rawSamples)
  /\ smpPc' = "done"
  /\ UNCHANGED <<mode, fetchVars, decodeVars, sessionVars, trendVars, mergeVars, callVars,
               retryVars, toolVars, rawSamples>>

SampleNext == Preprocess

----------------------------------------------------------------------------
(* tools/sleep: parseSleepTime, computeTrendSlope.  A clock time "HH:MM" is *)
(* the pair <<HH, MM>> that split(":").map(Number) makes of it.            *)

\* a JavaScript number that may be NaN: <<>> is NaN, <<v>> is v
NaN == None

parseSleepTimeMut(timeStr, sleepStartHour) ==
  LET h == timeStr[1]
      m == timeStr[2]
  IN h * 60 + m
parseSleepTime(timeStr, sleepStartHour) ==
  LET h == timeStr[1]
      m == timeStr[2]
      minutes == h * 60 + m
  IN IF sleepStartHour >= 18 /\ h < 18 THEN minutes + 1440 ELSE minutes

\* samples: the entries [time, value] of the Record, in insertion order
TimePoints(samples, sleepStartHour) ==
  [k \in 1..Len(samples) |-> parseSleepTime(samples[k].time, sleepStartHour)]

\* The sums of the regression with x in minutes since the first listed
\* sample: xHours = x / 60, so n*sumXY - sumX*sumY = a / 60 and
\* denom = b / 3600, and the slope times 100 is 6000 * a / b.
TrendSumsMut(samples, sleepStartHour) ==
  LET timePoints == TimePoints(samples, sleepStartHour)
      n == Len(samples)
      x == [k \in 1..n |-> timePoints[k] - timePoints[1]]
      sumX == SumSeq(x)
      sumY == SumSeq([k \in 1..n |-> samples[k].value])
      sumXY == SumSeq([k \in 1..n |-> x[k] * samples[k].value])
      sumX2 == SumSeq([k \in 1..n |-> x[k] * x[k]])
  IN [a |-> n * sumXY - sumX * sumY, b |-> sumX2 - sumX * sumX]
TrendSums(samples, sleepStartHour) ==
  LET timePoints == TimePoints(samples, sleepStartHour)
      n == Len(samples)
      x == [k \in 1..n |-> timePoints[k] - timePoints[1]]
      sumX == SumSeq(x)
      sumY == SumSeq([k \in 1..n |-> samples[k].value])
      sumXY == SumSeq([k \in 1..n |-> x[k] * samples[k].value])
      sumX2 == SumSeq([k \in 1..n |-> x[k] * x[k]])
  IN [a |-> n * sumXY - sumX * sumY, b |-> n * sumX2 - sumX * sumX]

\* the slope in hundredths per hour: Math.round(slope * 100), before / 100
computeTrendSlopeMut(samples, sleepStartHour) ==
  LET sums == TrendSums(samples, sleepStartHour)
  IN IF sums.b = 0 THEN NaN ELSE Some(RoundDiv(6000 * sums.a, sums.b))
computeTrendSlope(samples, sleepStartHour) ==
  LET sums == TrendSums(samples, sleepStartHour)
  IN IF sums.b = 0 THEN Some(0) ELSE Some(RoundDiv(6000 * sums.a, sums.b))

\* preprocessSleep: parseInt of the hour of sleep_start_time, "22" without
\* one; startTime is the optional <<hour, minute>> after the "T"
SleepStartHour(startTime) == IF IsSome(startTime) THEN Val(startTime)[1] ELSE 22

----------------------------------------------------------------------------
(* tools/sleep: the sleep night.  A Record<string, number> keyed by clock  *)
(* time is the sequence of its entries [time, value] in insertion order.   *)

\* the minimum over i of values[i] + values[i + 1] + values[i + 2]
RollingSums(values) ==
  [k \in 1..(Len(values) - 2) |-> values[k] + values[k + 1] + values[k + 2]]

computeSleepHrStats(samples, sleepStartHour) ==
  LET values == [k \in 1..Len(samples) |-> samples[k].value]
      min == MinSeq(values)
  IN [min |-> min,
      avg |-> RoundDiv(SumSeq(values), Len(values)),
      nadir |-> IF Len(values) < 3 THEN min
                ELSE RoundDiv(MinSeq(RollingSums(values)), 3),
      trend_slope |-> computeTrendSlope(samples, sleepStartHour)]

\* Array.prototype.sort by minutes: stable, ties keep their insertion order
RECURSIVE SortByMinutes(_)
SortByMinutes(entries) ==
  IF entries = <<>> THEN <<>>
  ELSE LET n == Len(entries)
           e == entries[n]
           sorted == SortByMinutes(SubSeq(entries, 1, n - 1))
           k == Cardinality({j \in 1..Len(sorted) : sorted[j].minutes <= e.minutes})
       IN SubSeq(sorted, 1, k) \o <<e>> \o SubSeq(sorted, k + 1, Len(sorted))

\* one segment per entry, the last one of duration 0
\* (the variant makes no segment of the last entry)
SegmentsMut(entries) ==
  [k \in 1..(Len(entries) - 1) |->
     [stage |-> entries[k].stage,
      start |-> entries[k].minutes,
      duration |-> entries[k + 1].minutes - entries[k].minutes]]
Segments(entries) ==
  [k \in 1..Len(entries) |->
     [stage |-> entries[k].stage,
      start |-> entries[k].minutes,
      duration |-> (IF k < Len(entries) THEN entries[k + 1].minutes
                    ELSE entries[k].minutes) - entries[k].minutes]]

\* x || 0 of an optional number
OrZero(x) == IF IsSome(x) THEN Val(x) ELSE 0

\* twice the minutes of the stage's segments that lie before the midpoint
\* (mid2 is twice the midpoint, which may fall on a half minute)
FirstHalf2Mut(segments, stage, mid2) ==
  SumSeq([k \in 1..Len(segments) |->
    LET seg == segments[k]
    IN IF seg.stage = stage /\ 2 * seg.start < mid2
         THEN 2 * seg.duration
         ELSE 0])
FirstHalf2(segments, stage, mid2) ==
  SumSeq([k \in 1..Len(segments) |->
    LET seg == segments[k]
    IN IF seg.stage = stage /\ 2 * seg.start < mid2
         THEN Min2(2 * (seg.start + seg.duration), mid2) - 2 * seg.start
         ELSE 0])

\* twice the minutes of the stage's segments that lie after the midpoint
SecondHalf2(segments, stage, mid2) ==
  SumSeq([k \in 1..Len(segments) |->
    LET seg == segments[k]
        segEnd2 == 2 * (seg.start + seg.duration)
    IN IF seg.stage = stage /\ segEnd2 > mid2
         THEN segEnd2 - Max2(2 * seg.start, mid2)
         ELSE 0])

StageTotal(segments, stage) ==
  SumSeq([k \in 1..Len(segments) |->
    IF segments[k].stage = stage THEN segments[k].duration ELSE 0])

computeSleepArchitecture(hypnogram, sleep, sleepStartHour) ==
  LET entries == SortByMinutes(
        [k \in 1..Len(hypnogram) |->
           [time |-> hypnogram[k].time, stage |-> hypnogram[k].value,
            minutes |-> parseSleepTime(hypnogram[k].time, sleepStartHour)]])
      segments == Segments(entries)
      sleepStart == entries[1].minutes
      sleepEnd == entries[Len(entries)].minutes
      totalDuration == sleepEnd - sleepStart
      mid2 == 2 * sleepStart + totalDuration
      deepIdx == {k \in 1..Len(segments) : segments[k].stage = 4}
      firstDeep == CHOOSE k \in deepIdx : \A j \in deepIdx : k <= j
      number_of_rem_cycles ==
        Cardinality({k \in 1..Len(segments) :
          segments[k].stage = 1 /\ (k = 1 \/ segments[k - 1].stage # 1)})
      cycleCount == IF OrZero(sleep.sleep_cycles) # 0
                      THEN Val(sleep.sleep_cycles) ELSE number_of_rem_cycles
      totalSleepSeconds == OrZero(sleep.light_sleep) + OrZero(sleep.deep_sleep)
                             + OrZero(sleep.rem_sleep)
      totalDeep == StageTotal(segments, 4)
      totalRem == StageTotal(segments, 1)
  IN [time_to_first_deep_sleep_min |->
        IF deepIdx # {} THEN segments[firstDeep].start - sleepStart ELSE 0,
      number_of_rem_cycles |-> number_of_rem_cycles,
      avg_cycle_length_min |->
        IF cycleCount > 0 THEN RoundDiv(totalSleepSeconds, 60 * cycleCount) ELSE 0,
      deep_sleep_in_first_half_pct |->
        IF totalDeep > 0
          THEN RoundDiv(100 * FirstHalf2(segments, 4, mid2), 2 * totalDeep) ELSE 0,
      rem_sleep_in_second_half_pct |->
        IF totalRem > 0
          THEN RoundDiv(100 * SecondHalf2(segments, 1, mid2), 2 * totalRem) ELSE 0]

\* sleep: [sleep_start_time, sleep_cycles, light_sleep, deep_sleep,
\* rem_sleep, heart_rate_samples, hypnogram], each optional but the first,
\* whose optional part is the clock time after its "T"
preprocessSleepMut(sleep) ==
  LET sleepStartHour == SleepStartHour(sleep.sleep_start_time)
  IN [sleep_cycles |-> sleep.sleep_cycles,
      light_sleep |-> sleep.light_sleep,
      deep_sleep |-> sleep.deep_sleep,
      rem_sleep |-> sleep.rem_sleep,
      heart_rate |->
        IF IsSome(sleep.heart_rate_samples) /\ Len(Val(sleep.heart_rate_samples)) > 0
          THEN Some(computeSleepHrStats(Val(sleep.heart_rate_samples), sleepStartHour))
          ELSE None,
      sleep_architecture |->
        IF IsSome(sleep.hypnogram) /\ Len(Val(sleep.hypnogram)) > 0
          THEN Some(computeSleepArchitecture(Val(sleep.hypnogram), sleep, sleepStartHour))
          ELSE None]
preprocessSleep(sleep) ==
  LET sleepStartHour == SleepStartHour(sleep.sleep_start_time)
  IN [sleep_cycles |-> sleep.sleep_cycles,
      light_sleep |-> sleep.light_sleep,
      deep_sleep |-> sleep.deep_sleep,
      rem_sleep |-> sleep.rem_sleep,
      heart_rate |->
        IF IsSome(sleep.heart_rate_samples) /\ Len(Val(sleep.heart_rate_samples)) > 0
          THEN Some(computeSleepHrStats(Val(sleep.heart_rate_samples), sleepStartHour))
          ELSE None,
      sleep_architecture |->
        IF IsSome(sleep.hypnogram) /\ Len(Val(sleep.hypnogram)) > 1
          THEN Some(computeSleepArchitecture(Val(sleep.hypnogram), sleep, sleepStartHour))
          ELSE None]

----------------------------------------------------------------------------
(* tools/sleep: the recharge night *)

computeSampleStats(samples, sleepStartHour) ==
  LET values == [k \in 1..Len(samples) |-> samples[k].value]
  IN [min |-> MinSeq(values), max |-> MaxSeq(values),
      trend_slope |-> computeTrendSlope(samples, sleepStartHour)]

\* the hour of the first sample key, of hrv_samples when the recharge has
\* that object at all, else of breathing_samples; 22 without a key
RechargeStartHour(recharge) ==
  LET keysOf == IF IsSome(recharge.hrv_samples) THEN Val(recharge.hrv_samples)
                ELSE IF IsSome(recharge.breathing_samples)
                  THEN Val(recharge.breathing_samples) ELSE <<>>
  IN IF keysOf # <<>> THEN keysOf[1].time[1] ELSE 22

\* the hrv / breathing_rate field made of a nightly average and its samples
RechargeStatsMut(avg, samples, sleepStartHour) ==
  IF IsSome(avg) /\ IsSome(samples) /\ Len(Val(samples)) > 0
    THEN LET stats == computeSampleStats(Val(samples), sleepStartHour)
         IN Some([avg |-> Val(avg), min |-> stats.min, max |-> stats.max,
                  trend_slope |-> stats.trend_slope])
  ELSE None
RechargeStats(avg, samples, sleepStartHour) ==
  IF IsSome(avg) /\ IsSome(samples) /\ Len(Val(samples)) > 0
    THEN LET stats == computeSampleStats(Val(samples), sleepStartHour)
         IN Some([avg |-> Val(avg), min |-> stats.min, max |-> stats.max,
                  trend_slope |-> stats.trend_slope])
  ELSE IF IsSome(avg)
    THEN Some([avg |-> Val(avg), min |-> 0, max |-> 0, trend_slope |-> Some(0)])
  ELSE None

preprocessNightlyRecharge(recharge) ==
  LET sleepStartHour == RechargeStartHour(recharge)
  IN [hrv |-> RechargeStats(recharge.heart_rate_variability_avg,
                            recharge.hrv_samples, sleepStartHour),
      breathing_rate |-> RechargeStats(recharge.breathing_rate_avg,
                                       recharge.breathing_samples, sleepStartHour)]

----------------------------------------------------------------------------
(* tools/exercises: the exercise *)

\* exercise: [distance, samples], both optional; the summaries of
\* preprocessSamples are assigned onto the record only when asked for
processExercise(exercise, samplesRequested) ==
  [distance |-> exercise.distance,
   summaries |->
     IF samplesRequested /\ IsSome(exercise.samples) /\ Len(Val(exercise.samples)) > 0
       THEN preprocessSamples(Val(exercise.samples))
       ELSE preprocessSamples(<<>>)]

----------------------------------------------------------------------------
(* One session's samples mapped through parseSleepTime, in time order *)

SessionIdle ==
  sessStart = <<>> /\ sessOffsets = <<>> /\ sessClock = <<>> /\ sessNorm = <<>>

SessionInit ==
  /\ sessStart \in (0..23) \X {0, 30}
  /\ sessOffsets = <<>>
  /\ sessClock = <<>>
  /\ sessNorm = <<>>

\* the next sample of the session, off whole hours after its start
RecordSample(off) ==
  /\ mode = "session" /\ Len(sessOffsets) < MaxPoints
  /\ sessOffsets # <<>> => off > sessOffsets[Len(sessOffsets)]
  /\ LET clock == <<(sessStart[1] + off) % 24, sessStart[2]>>
     IN /\ sessOffsets' = Append(sessOffsets, off)
        /\ sessClock' = Append(sessClock, clock)
        /\ sessNorm' = Append(sessNorm,
             parseSleepTime(clock, SleepStartHour(Some(sessStart))))
  /\ UNCHANGED <<mode, fetchVars, decodeVars, sampleVars, trendVars, mergeVars, callVars,
               retryVars, toolVars, sessStart>>

SessionNext == \E off \in 0..23 : RecordSample(off)

----------------------------------------------------------------------------
(* computeTrendSlope on one series *)

TrendTimes == {<<22, 0>>, <<23, 0>>, <<23, 30>>, <<0, 0>>, <<24, 0>>, <<1, 0>>}
TrendValues == {10, 12, 14}
TrendStartHours == {17, 22}

\* series of up to MaxEntries entries with distinct keys
TrendSeries ==
  UNION { { smp \in [1..n -> [time : TrendTimes, value : TrendValues]] :
              \A j, k \in 1..n : j # k => smp[j].time # smp[k].time } :
          n \in 1..MaxEntries }

TrendIdle ==
  trendSamples = <<>> /\ trendStartHour = 0 /\ trendSlope = <<>> /\ trendPc = "off"

TrendInit ==
  /\ trendSamples \in TrendSeries
  /\ trendStartHour \in TrendStartHours
  /\ trendSlope = <<>>
  /\ trendPc = "input"

ComputeTrend ==
  /\ mode = "trend" /\ trendPc = "input"
  /\ trendSlope' = computeTrendSlope(trendSamples, trendStartHour)
  /\ trendPc' = "done"
  /\ UNCHANGED <<mode, fetchVars, decodeVars, sampleVars, sessionVars, mergeVars, callVars,
               retryVars, toolVars,
                 trendSamples, trendStartHour>>

TrendNext == ComputeTrend

----------------------------------------------------------------------------
(* The merged summary record of one entity: exercise, activity day, sleep  *)
(* night or recharge night                                                 *)

Opt(S) == {None} \cup {Some(v) : v \in S}

NightSeries ==
  {<<>>,
   <<[time |-> <<23, 30>>, value |-> 50]>>,
   <<[time |-> <<22, 0>>, value |-> 40], [time |-> <<23, 0>>, value |-> 44],
     [time |-> <<0, 0>>, value |-> 42], [time |-> <<1, 0>>, value |-> 37]>>}

Hypnograms ==
  {<<>>,
   <<[time |-> <<23, 30>>, value |-> 4]>>,
   <<[time |-> <<23, 30>>, value |-> 1], [time |-> <<0, 15>>, value |-> 4]>>,
   <<[time |-> <<22, 0>>, value |-> 2], [time |-> <<0, 0>>, value |-> 1],
     [time |-> <<23, 0>>, value |-> 4], [time |-> <<1, 0>>, value |-> 0]>>}

SleepInputs ==
  [sleep_start_time : Opt({<<22, 10>>, <<1, 30>>}),
   sleep_cycles : Opt({0, 3}),
   light_sleep : Opt({14400}), deep_sleep : Opt({5400}), rem_sleep : {Some(6000)},
   heart_rate_samples : Opt(NightSeries),
   hypnogram : Opt(Hypnograms)]

RechargeInputs ==
  [heart_rate_variability_avg : Opt({0, 41}),
   hrv_samples : Opt(NightSeries),
   breathing_rate_avg : Opt({14}),
   breathing_samples : Opt(NightSeries)]

StepLists ==
  {<<>>, <<[timestamp |-> 7 * 3600, steps |-> 40],
           [timestamp |-> 7 * 3600 + 1800, steps |-> 25],
           [timestamp |-> 9 * 3600, steps |-> 0]>>}
ZoneLists ==
  {<<>>, <<[timestamp |-> 0, zone |-> "SEDENTARY"],
           [timestamp |-> 1500, zone |-> "LIGHT"],
           [timestamp |-> 2100, zone |-> "SLEEP"]>>}

ActivityInputs ==
  [activity : {UpstreamActivity(d) : d \in 1..2},
   samples : Opt([steps : Opt(StepLists), activity_zones : Opt(ZoneLists)])]

ExerciseInputs ==
  [exercise : [distance : Opt({5000}),
               samples : Opt({<<>>} \cup {<<b>> : b \in SampleBlocks})],
   samplesRequested : BOOLEAN]

MergeIdle == entityKind = "none" /\ entity = <<>> /\ merged = <<>> /\ mergePc = "off"

MergeInit ==
  /\ \/ entityKind = "exercise" /\ entity \in ExerciseInputs
     \/ entityKind = "activity" /\ entity \in ActivityInputs
     \/ entityKind = "sleep" /\ entity \in SleepInputs
     \/ entityKind = "recharge" /\ entity \in RechargeInputs
  /\ merged = <<>>
  /\ mergePc = "input"

MergeExercise ==
  /\ mode = "merge" /\ mergePc = "input" /\ entityKind = "exercise"
  /\ merged' = processExercise(entity.exercise, entity.samplesRequested)
  /\ mergePc' = "done"
  /\ UNCHANGED <<mode, fetchVars, decodeVars, sampleVars, sessionVars, trendVars,
                 callVars, retryVars, toolVars, entityKind, entity>>

MergeActivity ==
  /\ mode = "merge" /\ mergePc = "input" /\ entityKind = "activity"
  /\ merged' = preprocessActivity(entity.activity, entity.samples)
  /\ mergePc' = "done"
  /\ UNCHANGED <<mode, fetchVars, decodeVars, sampleVars, sessionVars, trendVars,
                 callVars, retryVars, toolVars, entityKind, entity>>

MergeSleep ==
  /\ mode = "merge" /\ mergePc = "input" /\ entityKind = "sleep"
  /\ merged' = preprocessSleep(entity)
  /\ mergePc' = "done"
  /\ UNCHANGED <<mode, fetchVars, decodeVars, sampleVars, sessionVars, trendVars,
                 callVars, retryVars, toolVars, entityKind, entity>>

MergeRecharge ==
  /\ mode = "merge" /\ mergePc = "input" /\ entityKind = "recharge"
  /\ merged' = preprocessNightlyRecharge(entity)
  /\ mergePc' = "done"
  /\ UNCHANGED <<mode, fetchVars, decodeVars, sampleVars, sessionVars, trendVars,
                 callVars, retryVars, toolVars, entityKind, entity>>

MergeNext == MergeExercise \/ MergeActivity \/ MergeSleep \/ MergeRecharge

----------------------------------------------------------------------------
(* One call of a summarizer *)

CallIdle == callee = "none" /\ callArgs = <<>> /\ callResult = <<>> /\ callPc = "off"

RetryIdle ==
  /\ context = "none" /\ attempt = 0 /\ lastError = <<>> /\ delay = 0
  /\ operation = <<>> /\ retrySettled = <<>> /\ retryPc = "off"

ToolIdle ==
  /\ toolDef = "none" /\ toolArgs = <<>> /\ toolParsed = <<>> /\ toolSettled = <<>>
  /\ toolResponse = <<>> /\ toolPc = "off"

\* the state before the call of fn on one of the arguments of argSet
CallInit(fn, argSet) ==
  /\ mode = "call" /\ callee = fn /\ callArgs \in argSet
  /\ callResult = <<>> /\ callPc = "input"
  /\ FetchIdle /\ DecodeIdle /\ SampleIdle /\ SessionIdle /\ TrendIdle /\ MergeIdle
  /\ RetryIdle /\ ToolIdle

\* the call of fn has not returned yet
CallPending(fn) == mode = "call" /\ callee = fn /\ callPc = "input"

\* what a call leaves alone
CallFrame ==
  UNCHANGED <<mode, fetchVars, decodeVars, sampleVars, sessionVars, trendVars,
              mergeVars, callee, callArgs, retryVars, toolVars>>

Returned(fn) == mode = "call" /\ callee = fn /\ callPc = "done"

----------------------------------------------------------------------------
(* tools/heart-rate: bucketHeartRateSamples.  A sample is [sample_time,     *)
(* heart_rate], sample_time the pair <<hours, minutes>> that parseInt makes *)
(* of the first two ":"-separated parts.                                    *)

DigitChar(d) ==
  CASE d = 0 -> "0" [] d = 1 -> "1" [] d = 2 -> "2" [] d = 3 -> "3"
    [] d = 4 -> "4" [] d = 5 -> "5" [] d = 6 -> "6" [] d = 7 -> "7"
    [] d = 8 -> "8" [] d = 9 -> "9"

\* String(n), for n >= 0
RECURSIVE NumberToString(_)
NumberToString(n) ==
  IF n < 10 THEN <<DigitChar(n)>>
  ELSE NumberToString(n \div 10) \o <<DigitChar(n % 10)>>

\* str.padStart(2, "0")
PadStart2(str) == IF Len(str) < 2 THEN <<"0">> \o str ELSE str

bucketIndexMut(sample) ==
  sample.sample_time[1] * 2 + (IF sample.sample_time[2] > 30 THEN 1 ELSE 0)
bucketIndex(sample) ==
  sample.sample_time[1] * 2 + (IF sample.sample_time[2] >= 30 THEN 1 ELSE 0)

\* the four arrays after the loop over the samples; in bucketMins and
\* bucketMaxs <<>> stands for the initial Infinity and -Infinity
RECURSIVE AccumulateBuckets(_)
AccumulateBuckets(samples) ==
  IF samples = <<>>
    THEN [bucketSums |-> [b \in 0..47 |-> 0],
          bucketMins |-> [b \in 0..47 |-> None],
          bucketMaxs |-> [b \in 0..47 |-> None],
          bucketCounts |-> [b \in 0..47 |-> 0]]
  ELSE LET n == Len(samples)
           acc == AccumulateBuckets(SubSeq(samples, 1, n - 1))
           sample == samples[n]
           idx == bucketIndex(sample)
           hr == sample.heart_rate
       IN [bucketSums |-> [acc.bucketSums EXCEPT ![idx] = @ + hr],
           bucketMins |-> [acc.bucketMins EXCEPT
                             ![idx] = IF @ = None \/ hr < Val(@) THEN Some(hr) ELSE @],
           bucketMaxs |-> [acc.bucketMaxs EXCEPT
                             ![idx] = IF @ = None \/ hr > Val(@) THEN Some(hr) ELSE @],
           bucketCounts |-> [acc.bucketCounts EXCEPT ![idx] = @ + 1]]

bucketLabel(b) ==
  LET labelMinutesTotal == (b + 1) * 30
  IN PadStart2(NumberToString(labelMinutesTotal \div 60)) \o <<":">>
       \o PadStart2(NumberToString(labelMinutesTotal % 60))

\* the second loop: for (let i = 0; i < 48; i++), skipping empty buckets
RECURSIVE EmitBucketsMut(_, _)
EmitBucketsMut(acc, b) ==
  IF b >= 48 THEN <<>>
  ELSE <<[time |-> bucketLabel(b),
          avg |-> IF acc.bucketCounts[b] = 0 THEN 0
                  ELSE RoundDiv(acc.bucketSums[b], acc.bucketCounts[b]),
          min |-> acc.bucketMins[b],
          max |-> acc.bucketMaxs[b],
          samples |-> acc.bucketCounts[b]]>>
       \o EmitBucketsMut(acc, b + 1)
RECURSIVE EmitBuckets(_, _)
EmitBuckets(acc, b) ==
  IF b >= 48 THEN <<>>
  ELSE (IF acc.bucketCounts[b] = 0 THEN <<>>
        ELSE <<[time |-> bucketLabel(b),
                avg |-> RoundDiv(acc.bucketSums[b], acc.bucketCounts[b]),
                min |-> acc.bucketMins[b],
                max |-> acc.bucketMaxs[b],
                samples |-> acc.bucketCounts[b]]>>)
       \o EmitBuckets(acc, b + 1)

bucketHeartRateSamples(samples) == EmitBuckets(AccumulateBuckets(samples), 0)

\* preprocessHeartRate; of no samples the average is NaN and the minimum
\* and maximum are +Infinity and -Infinity (none)
\* (the variant counts the buckets, not the samples)
preprocessHeartRateMut(date, samples) ==
  LET heartRates == [k \in 1..Len(samples) |-> samples[k].heart_rate]
  IN [date |-> date,
      buckets |-> bucketHeartRateSamples(samples),
      daily_avg |-> IF heartRates = <<>> THEN NaN
                    ELSE Some(RoundDiv(SumSeq(heartRates), Len(heartRates))),
      daily_min |-> IF heartRates = <<>> THEN None ELSE Some(MinSeq(heartRates)),
      daily_max |-> IF heartRates = <<>> THEN None ELSE Some(MaxSeq(heartRates)),
      total_samples |-> Len(bucketHeartRateSamples(samples))]
preprocessHeartRate(date, samples) ==
  LET heartRates == [k \in 1..Len(samples) |-> samples[k].heart_rate]
  IN [date |-> date,
      buckets |-> bucketHeartRateSamples(samples),
      daily_avg |-> IF heartRates = <<>> THEN NaN
                    ELSE Some(RoundDiv(SumSeq(heartRates), Len(heartRates))),
      daily_min |-> IF heartRates = <<>> THEN None ELSE Some(MinSeq(heartRates)),
      daily_max |-> IF heartRates = <<>> THEN None ELSE Some(MaxSeq(heartRates)),
      total_samples |-> Len(samples)]

\* every clock time once, and lists of up to MaxHrSamples samples around
\* the window boundaries
HrTimes == {<<0, 0>>, <<0, 29>>, <<0, 30>>, <<7, 45>>, <<8, 0>>, <<23, 30>>, <<23, 59>>}
HrRates == {60, 75}
HrInputs ==
  { <<[sample_time |-> <<h, m>>, heart_rate |-> 70]>> : h \in 0..23, m \in 0..59 }
  \cup UNION { [1..n -> [sample_time : HrTimes, heart_rate : HrRates]] :
               n \in 0..MaxHrSamples }

\* one day of samples around midnight and the first window boundary
DayInputs ==
  [date : {"2024-01-05"},
   samples : UNION { [1..n -> [sample_time : {<<0, 0>>, <<0, 29>>, <<0, 30>>, <<23, 59>>},
                               heart_rate : {60, 75, 91}]] : n \in 0..MaxHrSamples }]

InitHeartRate == CallInit("preprocessHeartRate", DayInputs)
PreprocessHeartRate ==
  /\ CallPending("preprocessHeartRate")
  /\ callResult' = preprocessHeartRate(callArgs.date, callArgs.samples)
  /\ callPc' = "done"
  /\ CallFrame
SpecHeartRate == InitHeartRate /\ [][PreprocessHeartRate]_vars

InitBuckets == CallInit("bucketHeartRateSamples", HrInputs)
BucketHeartRate ==
  /\ CallPending("bucketHeartRateSamples")
  /\ callResult' = bucketHeartRateSamples(callArgs)
  /\ callPc' = "done"
  /\ CallFrame
SpecBuckets == InitBuckets /\ [][BucketHeartRate]_vars

----------------------------------------------------------------------------
(* computeZoneDurations on one event list *)

ZoneTimes == {0, 600, 1200, 1230}
ZoneTags == {"SEDENTARY", "LIGHT", "MODERATE", "VIGOROUS", "SLEEP", "NON_WEAR"}
ZoneInputs ==
  UNION { [1..n -> [timestamp : ZoneTimes, zone : ZoneTags]] : n \in 0..MaxEvents }

InitZones == CallInit("computeZoneDurations", ZoneInputs)
ComputeZones ==
  /\ CallPending("computeZoneDurations")
  /\ callResult' = computeZoneDurations(callArgs)
  /\ callPc' = "done"
  /\ CallFrame
SpecZones == InitZones /\ [][ComputeZones]_vars

----------------------------------------------------------------------------
(* computeZoneDurations on events 20 seconds apart *)

FineZoneTimes == {0, 20, 40, 60}
FineZoneTags == {"LIGHT", "MODERATE", "SLEEP"}
FineZoneInputs ==
  UNION { [1..n -> [timestamp : FineZoneTimes, zone : FineZoneTags]] : n \in 0..MaxFineEvents }

InitFineZones == CallInit("computeZoneDurations", FineZoneInputs)
ComputeFineZones ==
  /\ CallPending("computeZoneDurations")
  /\ callResult' = computeZoneDurations(callArgs)
  /\ callPc' = "done"
  /\ CallFrame
SpecFineZones == InitFineZones /\ [][ComputeFineZones]_vars

----------------------------------------------------------------------------
(* processSpeedSplits on one speed series and one optional distance series *)

\* formatSampleMetrics: the label of a split in the pace table
SplitLabel(km) == IF km = 0 THEN <<"O", "v", "e", "r", "a", "l", "l">> ELSE NumberToString(km)

SpeedMarks == {0, 6, 15}
DistanceMarks == {0, 400, 900, 1000, 2100, 2200}

NonDecreasing(series) ==
  \A k \in 1..(Len(series) - 1) : series[k] <= series[k + 1]

\* a speed series alone, or with a cumulative distance series of its length
SplitInputs ==
  UNION { [speedValues : [1..n -> SpeedMarks], speedRecordingRate : {1},
           distanceValues : {None, Some(<<>>)}] : n \in 1..MaxSplitSamples }
  \cup UNION { [speedValues : [1..n -> SpeedMarks \ {0}], speedRecordingRate : {1},
                distanceValues : {Some(d) : d \in {x \in [1..n -> DistanceMarks] :
                                                     NonDecreasing(x)}}] :
               n \in 1..MaxSplitSamples }

InitSplits == CallInit("processSpeedSplits", SplitInputs)
ProcessSplits ==
  /\ CallPending("processSpeedSplits")
  /\ callResult' = processSpeedSplits(callArgs.speedValues, callArgs.speedRecordingRate,
                                      callArgs.distanceValues)
  /\ callPc' = "done"
  /\ CallFrame
SpecSplits == InitSplits /\ [][ProcessSplits]_vars

----------------------------------------------------------------------------
(* processPower on one power series and its recording interval in seconds *)

PowerMarks == {0, 1, 2, 5}
PowerRates == {1, 10, 15, 20, 60}

PowerInputs ==
  UNION { [values : [1..n -> PowerMarks], recordingRate : PowerRates] :
          n \in 1..MaxPowerSamples }

InitPower == CallInit("processPower", PowerInputs)
ProcessPower ==
  /\ CallPending("processPower")
  /\ callResult' = processPower(callArgs.values, callArgs.recordingRate)
  /\ callPc' = "done"
  /\ CallFrame
SpecPower == InitPower /\ [][ProcessPower]_vars

----------------------------------------------------------------------------
(* processRrIntervals on one series of RR intervals in milliseconds *)

RrMarks == {795, 800, 805, 810, 850, 851}

RrInputs == UNION { [1..n -> RrMarks] : n \in 0..MaxRrSamples }

InitRr == CallInit("processRrIntervals", RrInputs)
ProcessRr ==
  /\ CallPending("processRrIntervals")
  /\ callResult' = processRrIntervals(callArgs)
  /\ callPc' = "done"
  /\ CallFrame
SpecRr == InitRr /\ [][ProcessRr]_vars

----------------------------------------------------------------------------
(* processAltitude on one series of altitudes in metres *)

AltitudeMarks == {-5, 0, 10, 25}

AltitudeInputs == UNION { [1..n -> AltitudeMarks] : n \in 0..MaxAltitudeSamples }

InitAltitude == CallInit("processAltitude", AltitudeInputs)
ProcessAltitude ==
  /\ CallPending("processAltitude")
  /\ callResult' = processAltitude(callArgs)
  /\ callPc' = "done"
  /\ CallFrame
SpecAltitude == InitAltitude /\ [][ProcessAltitude]_vars

----------------------------------------------------------------------------
(* aggregateHourlySteps on one list of step samples *)

\* 00:00, 01:30 and 23:00 of the first day, 01:00 of the second
StepTimes == {0, 5400, 82800, 90000}
StepCounts == {-3, 0, 5}

StepInputs ==
  UNION { [1..n -> [timestamp : StepTimes, steps : StepCounts]] : n \in 0..MaxStepSamples }

InitSteps == CallInit("aggregateHourlySteps", StepInputs)
AggregateSteps ==
  /\ CallPending("aggregateHourlySteps")
  /\ callResult' = aggregateHourlySteps(callArgs)
  /\ callPc' = "done"
  /\ CallFrame
SpecSteps == InitSteps /\ [][AggregateSteps]_vars

----------------------------------------------------------------------------
(* computeSleepArchitecture on one hypnogram of at least two points *)

HypnoTimes == {<<22, 30>>, <<23, 0>>, <<0, 15>>, <<2, 30>>}
\* 1 is REM, 2 light sleep, 4 deep sleep
HypnoStages == {1, 2, 4}

\* the keys of a Record are distinct
DistinctTimes(series) ==
  \A a, b \in 1..Len(series) : a # b => series[a].time # series[b].time

ArchInputs ==
  [hypnogram : UNION { {h \in [1..n -> [time : HypnoTimes, value : HypnoStages]] :
                          DistinctTimes(h)} : n \in 2..MaxHypnoPoints },
   sleep : [sleep_cycles : Opt({0, 3}), light_sleep : Opt({14400}),
            deep_sleep : {Some(5400)}, rem_sleep : {Some(6000)}],
   sleepStartHour : {1, 22}]

InitArch == CallInit("computeSleepArchitecture", ArchInputs)
ComputeArch ==
  /\ CallPending("computeSleepArchitecture")
  /\ callResult' = computeSleepArchitecture(callArgs.hypnogram, callArgs.sleep,
                                            callArgs.sleepStartHour)
  /\ callPc' = "done"
  /\ CallFrame
SpecArch == InitArch /\ [][ComputeArch]_vars

----------------------------------------------------------------------------
(* services/api-client: PolarApiClient.withRetry and getRetryDelay *)

MAX_RETRIES == 3
BASE_DELAY_MS == 1000

\* parseInt(str, 10) of a string without blanks or sign: the value of its
\* leading digits, NaN when it has none
LeadingDigits(str) ==
  SubSeq(str, 1, Cardinality({k \in 1..Len(str) : \A j \in 1..k : str[j] \in Digits}))
parseInt(str) ==
  IF LeadingDigits(str) = <<>> THEN NaN ELSE Some(DigitsValue(LeadingDigits(str)))

Pow2(n) == IF n = 0 THEN 1 ELSE IF n = 1 THEN 2 ELSE IF n = 2 THEN 4 ELSE 8

\* error: [status, retryAfter], the response's status (none without a
\* response) and its retry-after header (none when absent)
getRetryDelay(error, attemptNo) ==
  IF error.retryAfter # None /\ Val(error.retryAfter) # <<>>
       /\ parseInt(Val(error.retryAfter)) # NaN
    THEN Val(parseInt(Val(error.retryAfter))) * 1000
    ELSE BASE_DELAY_MS * Pow2(attemptNo)

\* the catch block's test for backing off and trying again
ShouldRetryMut(error, attemptNo) == attemptNo < MAX_RETRIES
ShouldRetry(error, attemptNo) == error.status = Some(429) /\ attemptNo < MAX_RETRIES

RetryContexts == {"GET", "POST", "DELETE", "GET (binary)"}
RetryAfterHeaders == {None, Some(<<"2">>), Some(<<"s", "o", "o", "n">>)}
\* a failure with a response of status 429 or 500, or without a response
OperationErrors ==
  [status : {Some(429), Some(500)}, retryAfter : RetryAfterHeaders]
    \cup [status : {None}, retryAfter : {None}]
OperationData == {"data"}

RetryInit ==
  /\ context \in RetryContexts /\ attempt = 0 /\ lastError = None /\ delay = 0
  /\ operation = <<>> /\ retrySettled = <<>> /\ retryPc = "call"

RetryFrame ==
  UNCHANGED <<mode, fetchVars, decodeVars, sampleVars, sessionVars, trendVars,
              mergeVars, callVars, toolVars, context>>

\* return await operation(): the operation resolves
OperationResolves ==
  /\ mode = "retry" /\ retryPc = "call"
  /\ \E data \in OperationData :
       /\ operation' = [kind |-> "resolved", value |-> data]
       /\ retrySettled' = [kind |-> "returned", value |-> data]
  /\ retryPc' = "returned"
  /\ UNCHANGED <<attempt, lastError, delay>>
  /\ RetryFrame

\* the operation rejects: control enters the catch block
OperationRejects ==
  /\ mode = "retry" /\ retryPc = "call"
  /\ \E error \in OperationErrors : operation' = [kind |-> "rejected", error |-> error]
  /\ retryPc' = "caught"
  /\ UNCHANGED <<attempt, lastError, delay, retrySettled>>
  /\ RetryFrame

\* status 429 with retries left: remember the error and sleep
BackOff ==
  /\ mode = "retry" /\ retryPc = "caught"
  /\ ShouldRetry(operation.error, attempt)
  /\ lastError' = Some(operation.error)
  /\ delay' = getRetryDelay(operation.error, attempt)
  /\ retryPc' = "sleep"
  /\ UNCHANGED <<attempt, operation, retrySettled>>
  /\ RetryFrame

\* throw error
Rethrow ==
  /\ mode = "retry" /\ retryPc = "caught"
  /\ ~ShouldRetry(operation.error, attempt)
  /\ retrySettled' = [kind |-> "thrown", error |-> operation.error]
  /\ retryPc' = "thrown"
  /\ UNCHANGED <<attempt, lastError, delay, operation>>
  /\ RetryFrame

\* the sleep is over: continue with attempt++ and the loop test
WakeUp ==
  /\ mode = "retry" /\ retryPc = "sleep"
  /\ attempt' = attempt + 1
  /\ IF attempt + 1 <= MAX_RETRIES
       THEN retryPc' = "call" /\ UNCHANGED retrySettled
       ELSE /\ retryPc' = "thrown"
            /\ retrySettled' = [kind |-> "thrown", error |-> Val(lastError)]
  /\ UNCHANGED <<lastError, delay, operation>>
  /\ RetryFrame

RetryNext == OperationResolves \/ OperationRejects \/ BackOff \/ Rethrow \/ WakeUp

InitRetry ==
  mode = "retry" /\ RetryInit /\ FetchIdle /\ DecodeIdle /\ SampleIdle /\ SessionIdle
  /\ TrendIdle /\ MergeIdle /\ CallIdle /\ ToolIdle
\* the operation settles (the client has a timeout) and timers fire
SpecRetry == InitRetry /\ [][RetryNext]_vars /\ WF_vars(RetryNext)

----------------------------------------------------------------------------
(* index.ts: the callback registered for every tool.  A text is the        *)
(* sequence of the pieces it is concatenated from.                         *)

\* DATE_REGEX: /^\d{4}-\d{2}-\d{2}$/
MatchesDate(str) ==
  /\ Len(str) = 10
  /\ \A k \in {1, 2, 3, 4, 6, 7, 9, 10} : str[k] \in Digits
  /\ str[5] = "-" /\ str[8] = "-"

\* the keys each tool's strict input schema knows
SchemaKeys(tool) ==
  IF tool = "polar_get_activities" THEN {"from", "format"} ELSE {"format"}

\* args: [format, from, verbose], each the value passed in under that key,
\* none when the key is not passed
PassedKeys(args) == {key \in {"format", "from", "verbose"} : args[key] # None}

\* the messages of the issues inputSchema.parse finds in the arguments
SchemaIssues(tool, args) ==
  (IF args.format # None /\ Val(args.format) \notin {"markdown", "json"}
     THEN <<"Invalid enum value">> ELSE <<>>)
  \o (IF args.from # None /\ "from" \in SchemaKeys(tool) /\ ~MatchesDate(Val(args.from))
        THEN <<"Date must be in YYYY-MM-DD format">> ELSE <<>>)
  \o (IF PassedKeys(args) \ SchemaKeys(tool) # {}
        THEN <<"Unrecognized key(s) in object">> ELSE <<>>)

\* inputSchema.parse's result when nothing is wrong: format defaults to markdown
SchemaParsed(tool, args) ==
  [format |-> IF args.format = None THEN "markdown" ELSE Val(args.format),
   from |-> args.from]

\* error instanceof Error ? error.message : String(error)
ErrorMessage(thrown) ==
  IF thrown.isError THEN thrown.message ELSE thrown.value

ErrorResponseMut(errorMessage) ==
  [content |-> <<[type |-> "text", text |-> <<"Error: ">> \o errorMessage]>>,
   isError |-> None]
ErrorResponse(errorMessage) ==
  [content |-> <<[type |-> "text", text |-> <<"Error: ">> \o errorMessage]>>,
   isError |-> Some(TRUE)]

TextResponse(result) ==
  [content |-> <<[type |-> "text", text |-> result]>>, isError |-> None]

ToolNames == {"polar_get_activities", "polar_get_user"}
DateStrings ==
  {<<"2", "0", "2", "4", "-", "0", "1", "-", "0", "5">>,
   <<"2", "0", "2", "4", "-", "1", "-", "5">>,
   <<"2", "0", "2", "4", "/", "0", "1", "/", "0", "5">>}
ToolArguments ==
  [format : Opt({"markdown", "json", "yaml"}), from : Opt(DateStrings),
   verbose : Opt({TRUE})]

\* what a handler hands back, and what it can throw: an Error, or a value
\* that is no Error
HandlerTexts == {<<"## Activities">>, <<"[]">>}
HandlerThrows ==
  {[isError |-> TRUE, message |-> <<"Request timeout">>, value |-> <<"Error: Request timeout">>],
   [isError |-> TRUE, message |-> <<>>, value |-> <<"Error">>],
   [isError |-> FALSE, message |-> <<>>, value |-> <<"aborted">>]}

ToolInit ==
  /\ toolDef \in ToolNames
  /\ toolArgs \in ToolArguments
  /\ toolParsed = <<>> /\ toolSettled = <<>> /\ toolResponse = <<>>
  /\ toolPc = "parse"

ToolFrame ==
  UNCHANGED <<mode, fetchVars, decodeVars, sampleVars, sessionVars, trendVars,
              mergeVars, callVars, retryVars, toolDef, toolArgs>>

\* toolDef.inputSchema.parse(args) returns
ParseReturns ==
  /\ mode = "tool" /\ toolPc = "parse"
  /\ SchemaIssues(toolDef, toolArgs) = <<>>
  /\ toolParsed' = SchemaParsed(toolDef, toolArgs)
  /\ toolPc' = "handler"
  /\ UNCHANGED <<toolSettled, toolResponse>>
  /\ ToolFrame

\* toolDef.inputSchema.parse(args) throws a ZodError: the catch block answers
ParseThrows ==
  /\ mode = "tool" /\ toolPc = "parse"
  /\ SchemaIssues(toolDef, toolArgs) # <<>>
  /\ LET thrown == [isError |-> TRUE, message |-> SchemaIssues(toolDef, toolArgs),
                    value |-> <<"ZodError">>]
     IN /\ toolSettled' = [kind |-> "threw", thrown |-> thrown]
        /\ toolResponse' = ErrorResponse(ErrorMessage(thrown))
  /\ toolPc' = "responded"
  /\ UNCHANGED toolParsed
  /\ ToolFrame

\* await toolDef.handler(parsed) resolves
HandlerResolves ==
  /\ mode = "tool" /\ toolPc = "handler"
  /\ \E result \in HandlerTexts :
       /\ toolSettled' = [kind |-> "returned", result |-> result]
       /\ toolResponse' = TextResponse(result)
  /\ toolPc' = "responded"
  /\ UNCHANGED toolParsed
  /\ ToolFrame

\* await toolDef.handler(parsed) rejects: the catch block answers
HandlerRejects ==
  /\ mode = "tool" /\ toolPc = "handler"
  /\ \E thrown \in HandlerThrows :
       /\ toolSettled' = [kind |-> "threw", thrown |-> thrown]
       /\ toolResponse' = ErrorResponse(ErrorMessage(thrown))
  /\ toolPc' = "responded"
  /\ UNCHANGED toolParsed
  /\ ToolFrame

ToolNext == ParseReturns \/ ParseThrows \/ HandlerResolves \/ HandlerRejects

InitTool ==
  mode = "tool" /\ ToolInit /\ FetchIdle /\ DecodeIdle /\ SampleIdle /\ SessionIdle
  /\ TrendIdle /\ MergeIdle /\ CallIdle /\ RetryIdle
\* parse returns or throws at once; the handler's promise settles
SpecTool == InitTool /\ [][ToolNext]_vars /\ WF_vars(ToolNext)

----------------------------------------------------------------------------
(* Specifications *)

InitFetch ==
  mode = "fetch" /\ FetchInit /\ DecodeIdle /\ SampleIdle /\ SessionIdle /\ TrendIdle
  /\ MergeIdle /\ CallIdle /\ RetryIdle /\ ToolIdle
SpecFetch == InitFetch /\ [][FetchNext]_vars

InitDecode ==
  mode = "decode" /\ FetchIdle /\ DecodeInit /\ SampleIdle /\ SessionIdle /\ TrendIdle
  /\ MergeIdle /\ CallIdle /\ RetryIdle /\ ToolIdle
SpecDecode == InitDecode /\ [][DecodeNext]_vars

InitSamples ==
  mode = "samples" /\ FetchIdle /\ DecodeIdle /\ SampleInit /\ SessionIdle /\ TrendIdle
  /\ MergeIdle /\ CallIdle /\ RetryIdle /\ ToolIdle
SpecSamples == InitSamples /\ [][SampleNext]_vars

InitSession ==
  mode = "session" /\ FetchIdle /\ DecodeIdle /\ SampleIdle /\ SessionInit /\ TrendIdle
  /\ MergeIdle /\ CallIdle /\ RetryIdle /\ ToolIdle
SpecSession == InitSession /\ [][SessionNext]_vars

InitTrend ==
  mode = "trend" /\ FetchIdle /\ DecodeIdle /\ SampleIdle /\ SessionIdle /\ TrendInit
  /\ MergeIdle /\ CallIdle /\ RetryIdle /\ ToolIdle
SpecTrend == InitTrend /\ [][TrendNext]_vars

InitMerge ==
  mode = "merge" /\ FetchIdle /\ DecodeIdle /\ SampleIdle /\ SessionIdle /\ TrendIdle
  /\ MergeInit /\ CallIdle /\ RetryIdle /\ ToolIdle
SpecMerge == InitMerge /\ [][MergeNext]_vars

----------------------------------------------------------------------------
(* Claims *)

BatchNo(d) == (d - 1) \div 5

\* C1: in getActivities at most 5 per-day fetch tasks (hence at most 5
\* upstream requests) are outstanding at any moment, and no fetch of batch
\* k+1 has been started unless every fetch task of batch k has finished.
C1_BatchedFetches ==
  /\ Cardinality(Outstanding) <= 5
  /\ \A d, e \in DOMAIN task :
       (BatchNo(e) < BatchNo(d) /\ task[d] # "notStarted")
         => task[e] = "fulfilled"

\* a second batch is in flight, after a first batch of five ran in parallel
C1_Witness ==
  /\ mode = "fetch" /\ Len(results) = 5
  /\ \E d \in DOMAIN task : BatchNo(d) = 1 /\ task[d] \in {"primary", "samples"}

\* all five fetches of one batch are outstanding at once, at different stages
C1_ParallelWitness ==
  /\ Cardinality(Outstanding) = 5
  /\ \E d, e \in Outstanding : task[d] = "primary" /\ task[e] = "samples"

ProcessedFor(date) ==
  {k \in 1..Len(processed) : processed[k].date = date}

\* C2: a date whose primary fetch failed is absent from the output; a date
\* whose primary fetch succeeded is present, with no sample-derived data if
\* its samples fetch failed; no fetch failure makes getActivities fail.
C2_FailuresTolerated ==
  /\ pcMain # "failed"
  /\ \A d \in DOMAIN task : task[d] # "rejected"
  /\ pcMain = "done" =>
       \A d \in DOMAIN dates :
         /\ primaryOutcome[d] \in {"ok", "fail"}
         /\ primaryOutcome[d] = "fail" => ProcessedFor(dates[d]) = {}
         /\ primaryOutcome[d] = "ok" =>
              /\ ProcessedFor(dates[d]) # {}
              /\ samplesOutcome[d] = "fail" =>
                   \A k \in ProcessedFor(dates[d]) :
                     /\ processed[k].hourly_steps = <<>>
                     /\ processed[k].zone_summary = ZeroZones

\* one call in which a primary fetch failed, a samples fetch failed and a
\* day was fetched in full
C2_Witness ==
  /\ pcMain = "done"
  /\ \E d, e, f \in DOMAIN dates :
       /\ primaryOutcome[d] = "fail"
       /\ primaryOutcome[e] = "ok" /\ samplesOutcome[e] = "fail"
       /\ primaryOutcome[f] = "ok" /\ samplesOutcome[f] = "ok"
       /\ \E k \in ProcessedFor(dates[f]) : processed[k].hourly_steps # <<>>

\* the present entries of a decoded series, in their original order
RECURSIVE PresentOf(_, _)
PresentOf(series, k) ==
  IF k > Len(series) THEN <<>>
  ELSE (IF series[k] # None THEN <<series[k][1]>> ELSE <<>>)
       \o PresentOf(series, k + 1)

\* C3: parseSampleData returns one entry per comma-separated token, in
\* token order, an absent entry staying at its own position; filterNulls
\* returns exactly the present entries in their original order, so its
\* length never exceeds the decoded length.
C3_DecodeKeepsPositions ==
  /\ decPc \in {"decoded", "filtered"} =>
       /\ Len(decoded) = Len(tokenIds)
       /\ \A k \in 1..Len(tokenIds) :
            (decoded[k] = None) <=> (TokenTable[tokenIds[k]].means = None)
  /\ decPc = "filtered" =>
       /\ filtered = PresentOf(decoded, 1)
       /\ Len(filtered) <= Len(decoded)

\* an absent entry between two present ones was decoded and then filtered
C3_Witness ==
  /\ decPc = "filtered" /\ Len(decoded) = 3
  /\ decoded[1] # None /\ decoded[2] = None /\ decoded[3] # None
  /\ Len(filtered) = 2

\* C4: parseSampleData has no error outcome: each token, after trimming,
\* maps to absent when it is empty, a NULL / null sentinel or non-numeric,
\* and to its parsed number otherwise, whatever the other tokens are.
C4_DecodeNeverFails ==
  decPc \in {"decoded", "filtered"} =>
    /\ DOMAIN decoded = DOMAIN tokenIds
    /\ \A k \in DOMAIN tokenIds : decoded[k] = TokenTable[tokenIds[k]].means

\* a malformed token was decoded to absent and the number after it parsed
C4_Witness ==
  /\ decPc = "decoded" /\ Len(tokenIds) >= 2
  /\ tokenIds[1] = 8 /\ decoded[1] = None
  /\ decoded[2] = Some(12)

\* the last block of a type in rawSamples, the one the Map keeps (None: no
\* block of the type)
ChannelBlock(type) ==
  LET at == {k \in 1..Len(rawSamples) : rawSamples[k].sample_type = type}
  IN IF at = {} THEN None
     ELSE Some(rawSamples[CHOOSE k \in at : \A l \in at : l <= k])

\* the decoded series of a channel that exists
ChannelSeries(type) == parseSampleData(Val(ChannelBlock(type)).data)

\* the original index of the k-th present entry of a decoded series
OrigIdx(series, k) ==
  CHOOSE j \in 1..Len(series) :
    /\ series[j] # None
    /\ Cardinality({l \in 1..j : series[l] # None}) = k

\* C5: with a speed channel (type 1) and a distance channel (type 10) of the
\* same length, each with a usable sample, preprocessSamples drops an index
\* from both channels or from neither, so that in every pace split the
\* averaged speed samples are the ones recorded at the original indices of
\* that split's distance samples.
C5_PairedFiltering ==
  (/\ smpPc = "done"
   /\ ChannelBlock(1) # None /\ ChannelBlock(10) # None
   /\ Len(ChannelSeries(1)) = Len(ChannelSeries(10))
   /\ filterNulls(ChannelSeries(1)) # <<>>
   /\ filterNulls(ChannelSeries(10)) # <<>>) =>
    LET speed == ChannelSeries(1)
        dist == ChannelSeries(10)
        speedValues == filterNulls(speed)
        bounds == SplitBounds(filterNulls(dist))
    IN /\ \A j \in 1..Len(speed) : (speed[j] = None) <=> (dist[j] = None)
       /\ \A b \in 1..Len(bounds) :
            {OrigIdx(speed, k) :
               k \in bounds[b].from..Min2(bounds[b].to, Len(speedValues))}
            = {OrigIdx(dist, k) : k \in bounds[b].from..bounds[b].to}

\* how many usable samples each data string of the inputs holds
UsableIn(data) ==
  CASE data = <<"N", "U", "L", "L">> -> 0
    [] data = <<"n", "u", "l", "l">> -> 0
    [] data = <<"1", "2">> -> 1
    [] data = <<"4", ",", "N", "U", "L", "L", ",", "8">> -> 2
    [] data = <<"4", ",", "8", ",", "6">> -> 3
    [] data = <<"6", "0", "0", ",", "1", "2", "0", "0", ",",
                "1", "8", "0", "0">> -> 3
    [] data = <<"6", "0", "0", ",", "N", "U", "L", "L", ",",
                "1", "8", "0", "0">> -> 2
    [] data = <<"4", "0", "0", ",", "8", "0", "0">> -> 2

\* the summary field preprocessSamples derives from a channel type
FieldOf(result, type) ==
  CASE type = 1 -> result.pace
    [] type = 2 -> result.cadence
    [] type = 3 -> result.altitude
    [] type = 4 -> result.power
    [] type = 5 -> result.power_pedaling_index
    [] type = 6 -> result.power_lr_balance
    [] type = 7 -> result.air_pressure
    [] type = 8 -> result.running_cadence
    [] type = 9 -> result.temperature
    [] type = 11 -> result.rr_intervals

\* C6: for every channel type preprocessSamples handles, the summary field
\* is present if and only if the channel exists in the input and has at
\* least one usable sample (at least two for RR intervals, type 11); with
\* several blocks of one type the channel is the last of them.
C6_FieldIffUsable ==
  smpPc = "done" =>
    \A type \in {1, 2, 3, 4, 5, 6, 7, 8, 9, 11} :
      (FieldOf(sampleResult, type) # None)
        <=> /\ ChannelBlock(type) # None
            /\ UsableIn(Val(ChannelBlock(type)).data)
                 >= (IF type = 11 THEN 2 ELSE 1)

\* an RR channel with a single usable sample gave no field, beside a
\* channel without usable samples and none of the other fields
C6_Witness ==
  /\ smpPc = "done" /\ Len(rawSamples) = 2
  /\ rawSamples[1].sample_type = 11 /\ UsableIn(rawSamples[1].data) = 1
  /\ rawSamples[2].sample_type = 7 /\ UsableIn(rawSamples[2].data) = 0
  /\ \A type \in {1, 2, 3, 4, 5, 6, 7, 8, 9, 11} :
       FieldOf(sampleResult, type) = None

\* a channel with usable samples gave its field
C6_PresentWitness ==
  /\ smpPc = "done" /\ Len(rawSamples) = 2
  /\ rawSamples[1].sample_type = 11 /\ sampleResult.rr_intervals # None
  /\ rawSamples[2].sample_type = 2 /\ sampleResult.cadence # None



\* ---- C7: derived fields of the merged records ----

Missing(series) == series = None \/ Val(series) = <<>>

ZeroStats(avg) == [avg |-> avg, min |-> 0, max |-> 0, trend_slope |-> Some(0)]

\* C7 (as stated): a merged record carries a derived field only when the
\* series it is derived from was present and non-empty: no hrv or
\* breathing_rate values on a recharge night whose sample series is missing
\* or empty, no hourly-step values and no zero-filled zone summary on an
\* activity day whose samples are missing, no heart_rate or
\* sleep_architecture on a sleep night without samples or hypnogram, no
\* channel summary on an exercise without samples.
C7_OnlyFromPresentSeries ==
  (mode = "merge" /\ mergePc = "done") =>
    /\ entityKind = "recharge" =>
         /\ Missing(entity.hrv_samples) => merged.hrv = None
         /\ Missing(entity.breathing_samples) => merged.breathing_rate = None
    /\ entityKind = "activity" =>
         (entity.samples = None =>
            merged.hourly_steps = <<>> /\ merged.zone_summary # ZeroZones)
    /\ entityKind = "sleep" =>
         /\ Missing(entity.heart_rate_samples) => merged.heart_rate = None
         /\ Missing(entity.hypnogram) => merged.sleep_architecture = None
    /\ entityKind = "exercise" =>
         (Missing(entity.exercise.samples) =>
            \A t \in SampleTypes \ {10} : FieldOf(merged.summaries, t) = None)

\* C7 (amended): an exercise carries a channel summary only when its
\* samples were requested and hold a usable sample of that channel, and a
\* sleep night carries heart_rate exactly when it has a non-empty
\* heart-rate series and sleep_architecture exactly when its hypnogram has
\* two or more points; but a recharge night carries hrv (breathing_rate)
\* exactly when the nightly average is reported, with min, max and trend
\* set to 0 when the sample series is missing or empty, and an activity day
\* always carries hourly_steps and zone_summary, the former empty and the
\* latter all zeros when the samples they come from are missing.
C7_DerivedFields ==
  (mode = "merge" /\ mergePc = "done") =>
    /\ entityKind = "recharge" =>
         /\ IsSome(merged.hrv) <=> IsSome(entity.heart_rate_variability_avg)
         /\ IsSome(merged.breathing_rate) <=> IsSome(entity.breathing_rate_avg)
         /\ (IsSome(merged.hrv) /\ Missing(entity.hrv_samples)) =>
              Val(merged.hrv) = ZeroStats(Val(entity.heart_rate_variability_avg))
         /\ (IsSome(merged.breathing_rate) /\ Missing(entity.breathing_samples)) =>
              Val(merged.breathing_rate) = ZeroStats(Val(entity.breathing_rate_avg))
         /\ (IsSome(merged.hrv) /\ ~Missing(entity.hrv_samples)) =>
              LET vs == {Val(entity.hrv_samples)[k].value :
                           k \in 1..Len(Val(entity.hrv_samples))}
              IN /\ Val(merged.hrv).min \in vs /\ Val(merged.hrv).max \in vs
                 /\ \A v \in vs : Val(merged.hrv).min <= v /\ v <= Val(merged.hrv).max
    /\ entityKind = "activity" =>
         /\ (entity.samples = None \/ Val(entity.samples).steps = None) =>
              merged.hourly_steps = <<>>
         /\ (entity.samples = None \/ Val(entity.samples).activity_zones = None) =>
              merged.zone_summary = ZeroZones
    /\ entityKind = "sleep" =>
         /\ IsSome(merged.heart_rate) <=> ~Missing(entity.heart_rate_samples)
         /\ IsSome(merged.sleep_architecture) <=>
              (IsSome(entity.hypnogram) /\ Len(Val(entity.hypnogram)) >= 2)
    /\ entityKind = "exercise" =>
         \A t \in SampleTypes \ {10} :
           IsSome(FieldOf(merged.summaries, t)) =>
             /\ entity.samplesRequested
             /\ ~Missing(entity.exercise.samples)
             /\ \E k \in 1..Len(Val(entity.exercise.samples)) :
                  /\ Val(entity.exercise.samples)[k].sample_type = t
                  /\ UsableIn(Val(entity.exercise.samples)[k].data) >= 1

\* a recharge night with a reported HRV average and no HRV samples
C7_Witness ==
  /\ mode = "merge" /\ mergePc = "done" /\ entityKind = "recharge"
  /\ entity.heart_rate_variability_avg = Some(41) /\ entity.hrv_samples = None
  /\ merged.hrv = Some(ZeroStats(41))

\* an activity day whose samples are missing
C7_ActivityWitness ==
  /\ mode = "merge" /\ mergePc = "done" /\ entityKind = "activity"
  /\ entity.samples = None
  /\ merged.hourly_steps = <<>> /\ merged.zone_summary = ZeroZones

\* a sleep night with a one-point hypnogram and an empty heart-rate series
C7_SleepWitness ==
  /\ mode = "merge" /\ mergePc = "done" /\ entityKind = "sleep"
  /\ entity.heart_rate_samples = Some(<<>>)
  /\ IsSome(entity.hypnogram) /\ Len(Val(entity.hypnogram)) = 1
  /\ merged.heart_rate = None /\ merged.sleep_architecture = None

\* the samples recorded at or after 18:00 of the day after an evening start,
\* or after midnight of a start before 18:00: the far side of the boundary
\* at which parseSleepTime's rollover rule changes its answer
PastBoundary(off) ==
  IF sessStart[1] >= 18 THEN sessStart[1] + off >= 42 ELSE sessStart[1] + off >= 24

\* C8 (as stated): for any session shorter than 24 hours, whatever its start
\* hour, the normalized minutes of its samples taken in time order are
\* strictly increasing.
C8_StrictlyIncreasing ==
  mode = "session" =>
    \A j, k \in 1..Len(sessNorm) : j < k => sessNorm[j] < sessNorm[k]

\* C8 (amended): the normalized minutes are strictly increasing when the
\* session's samples all lie on one side of the rollover boundary: for a
\* start hour of 18 or later, not on both sides of 18:00 of the following
\* day; for a start hour before 18, not on both sides of midnight.
C8_IncreasingWithinRule ==
  (mode = "session" /\ \A j, k \in 1..Len(sessOffsets) :
       PastBoundary(sessOffsets[j]) = PastBoundary(sessOffsets[k]))
    => \A j, k \in 1..Len(sessNorm) : j < k => sessNorm[j] < sessNorm[k]

\* an evening session with samples before and after midnight
C8_Witness ==
  /\ mode = "session" /\ Len(sessNorm) = 3
  /\ sessStart[1] >= 18
  /\ sessClock[1][1] >= 18 /\ sessClock[3][1] < 18
  /\ \A k \in 1..3 : ~PastBoundary(sessOffsets[k])

\* ---- C9, C10: computeTrendSlope ----

\* the series as points [t, y], t in minutes on the normalized timeline
\* counted from the earliest sample
TrendPoints ==
  LET tp == TimePoints(trendSamples, trendStartHour)
      t0 == MinSeq(tp)
  IN [k \in 1..Len(tp) |-> [t |-> tp[k] - t0, y |-> trendSamples[k].value]]

\* least-squares slope of y against t / 60, in hundredths, half rounded up
OlsHundredths(pts) ==
  LET n == Len(pts)
      st == SumSeq([k \in 1..n |-> pts[k].t])
      sy == SumSeq([k \in 1..n |-> pts[k].y])
      sty == SumSeq([k \in 1..n |-> pts[k].t * pts[k].y])
      stt == SumSeq([k \in 1..n |-> pts[k].t * pts[k].t])
  IN RoundDiv(6000 * (n * sty - st * sy), n * stt - st * st)

SameMinute == \A j, k \in 1..Len(TrendPoints) : TrendPoints[j].t = TrendPoints[k].t

\* all points on the line through two of them that differ in time
OnALine(pts, p, q) ==
  /\ pts[p].t # pts[q].t
  /\ \A k \in 1..Len(pts) :
       (pts[k].y - pts[p].y) * (pts[q].t - pts[p].t)
         = (pts[q].y - pts[p].y) * (pts[k].t - pts[p].t)

ExampleSeries ==
  <<[time |-> <<22, 0>>, value |-> 10], [time |-> <<23, 0>>, value |-> 12],
    [time |-> <<0, 0>>, value |-> 14]>>

\* C9: computeTrendSlope returns the least-squares slope of value against
\* hours on the normalized timeline, rounded to 2 decimals; for samples on
\* a line a + b*hours that is b (rounded); the series 22:00->10, 23:00->12,
\* 00:00->14 with start hour 22 gives 2.00; and listing the same samples in
\* another order gives the same result.
C9_LeastSquaresSlope ==
  (mode = "trend" /\ trendPc = "done") =>
    LET pts == TrendPoints
        n == Len(pts)
    IN /\ ~SameMinute => trendSlope = Some(OlsHundredths(pts))
       /\ \A p, q \in 1..n :
            OnALine(pts, p, q) =>
              trendSlope = Some(RoundDiv(6000 * (pts[q].y - pts[p].y),
                                         pts[q].t - pts[p].t))
       /\ (trendSamples = ExampleSeries /\ trendStartHour = 22) =>
            /\ [k \in 1..3 |-> pts[k].t] = <<0, 60, 120>>
            /\ trendSlope = Some(200)
       /\ \A f \in Permutations(1..n) :
            computeTrendSlope([k \in 1..n |-> trendSamples[f[k]]], trendStartHour)
              = trendSlope

\* three samples on a line across midnight, listed out of time order
C9_Witness ==
  /\ mode = "trend" /\ trendPc = "done" /\ trendStartHour = 22
  /\ Len(trendSamples) = 3
  /\ trendSamples[1].time = <<0, 0>> /\ trendSamples[2].time = <<22, 0>>
  /\ trendSamples[3].time = <<23, 0>>
  /\ OnALine(TrendPoints, 1, 2)
  /\ trendSlope = Some(200)

\* the example of the claim itself
C9_ExampleWitness ==
  /\ mode = "trend" /\ trendPc = "done" /\ trendStartHour = 22
  /\ trendSamples = ExampleSeries /\ trendSlope = Some(200)

\* C10: computeTrendSlope returns exactly 0 (a number, not the NaN a
\* division by zero gives) for a single-sample series and for any series
\* whose samples all fall on the same normalized minute.
C10_ZeroVarianceIsZero ==
  (mode = "trend" /\ trendPc = "done") =>
    /\ Len(trendSamples) = 1 => trendSlope = Some(0)
    /\ SameMinute => trendSlope = Some(0)

\* two samples with different values on the same normalized minute
C10_Witness ==
  /\ mode = "trend" /\ trendPc = "done"
  /\ Len(trendSamples) = 2 /\ SameMinute
  /\ trendSamples[1].value # trendSamples[2].value
  /\ trendSlope = Some(0)

\* a single sample
C10_SingleWitness ==
  /\ mode = "trend" /\ trendPc = "done"
  /\ Len(trendSamples) = 1 /\ trendSamples[1].value = 14
  /\ trendSlope = Some(0)


\* ---- C11, C12: bucketHeartRateSamples ----

HrSamples == callArgs

\* the minutes a label "HH:MM" stands for
LabelMinutes(label) ==
  DigitsValue(SubSeq(label, 1, 2)) * 60 + DigitsValue(SubSeq(label, 4, 5))

WellFormedLabel(label) ==
  /\ Len(label) = 5 /\ label[3] = ":"
  /\ \A k \in {1, 2, 4, 5} : label[k] \in Digits
  /\ DigitsValue(SubSeq(label, 4, 5)) < 60

ExpectedIndex(time) == time[1] * 2 + (IF time[2] >= 30 THEN 1 ELSE 0)

\* C11: every heart-rate sample with clock time HH:MM is accumulated into
\* exactly one bucket, of index HH*2 + (MM >= 30 ? 1 : 0), which lies in
\* 0..47, and emitted bucket i is labelled with the end of its window,
\* (i+1)*30 minutes written as HH:MM (07:45 -> index 15 -> 08:00, index 0
\* -> 00:30).
C11_BucketIndexAndLabel ==
  Returned("bucketHeartRateSamples") =>
    /\ \A k \in 1..Len(HrSamples) : ExpectedIndex(HrSamples[k].sample_time) \in 0..47
    /\ \A b \in 0..47 :
         LET n == Cardinality({k \in 1..Len(HrSamples) :
                                 ExpectedIndex(HrSamples[k].sample_time) = b})
             emitted == {j \in 1..Len(callResult) :
                           LabelMinutes(callResult[j].time) = (b + 1) * 30}
         IN n > 0 =>
              /\ Cardinality(emitted) = 1
              /\ \A j \in emitted : callResult[j].samples = n
    /\ \A j \in 1..Len(callResult) : WellFormedLabel(callResult[j].time)
    /\ SumSeq([j \in 1..Len(callResult) |-> callResult[j].samples]) = Len(HrSamples)
    /\ (Len(HrSamples) = 1 /\ HrSamples[1].sample_time = <<7, 45>>) =>
         callResult[1].time = <<"0", "8", ":", "0", "0">>
    /\ (Len(HrSamples) = 1 /\ HrSamples[1].sample_time = <<0, 0>>) =>
         callResult[1].time = <<"0", "0", ":", "3", "0">>

\* samples at 00:29, 00:30 and 07:45, emitted as 00:30, 01:00 and 08:00
C11_Witness ==
  /\ Returned("bucketHeartRateSamples")
  /\ {HrSamples[k].sample_time : k \in 1..Len(HrSamples)}
       = {<<0, 29>>, <<0, 30>>, <<7, 45>>}
  /\ [j \in 1..Len(callResult) |-> callResult[j].time]
       = << <<"0", "0", ":", "3", "0">>, <<"0", "1", ":", "0", "0">>,
            <<"0", "8", ":", "0", "0">> >>

\* the last window of the day, labelled 24:00
C11_LastWindowWitness ==
  /\ Returned("bucketHeartRateSamples") /\ Len(HrSamples) = 1
  /\ HrSamples[1].sample_time = <<23, 59>>
  /\ callResult[1].time = <<"2", "4", ":", "0", "0">>

\* the samples of the wall-clock half-hour window w (minutes 30w .. 30w+29)
InWindow(w) ==
  {k \in 1..Len(HrSamples) :
     (HrSamples[k].sample_time[1] * 60 + HrSamples[k].sample_time[2]) \div 30 = w}

\* C12: a bucket is emitted if and only if at least one sample fell into
\* its wall-clock half-hour window; an emitted bucket has a sample count of
\* at least 1 and min, avg and max taken from its samples; at most 48
\* buckets are emitted, in strictly ascending window order; the window of a
\* sample is fixed by its clock time alone, wherever the day's first sample
\* lies.
C12_OnlyNonEmptyBuckets ==
  Returned("bucketHeartRateSamples") =>
    /\ \A w \in 0..47 :
         (InWindow(w) # {}) <=>
           (\E j \in 1..Len(callResult) : LabelMinutes(callResult[j].time) = (w + 1) * 30)
    /\ \A j \in 1..Len(callResult) :
         LET bucket == callResult[j]
             w == LabelMinutes(bucket.time) \div 30 - 1
             rates == {HrSamples[k].heart_rate : k \in InWindow(w)}
         IN /\ bucket.samples >= 1 /\ bucket.samples = Cardinality(InWindow(w))
            /\ IsSome(bucket.min) /\ IsSome(bucket.max)
            /\ Val(bucket.min) \in rates /\ Val(bucket.max) \in rates
            /\ \A r \in rates : Val(bucket.min) <= r /\ r <= Val(bucket.max)
            /\ Val(bucket.min) <= bucket.avg /\ bucket.avg <= Val(bucket.max)
    /\ Len(callResult) <= 48
    /\ \A j, k \in 1..Len(callResult) :
         j < k => LabelMinutes(callResult[j].time) < LabelMinutes(callResult[k].time)

\* two samples of different rates in one window and an earlier window's
\* sample listed last
C12_Witness ==
  /\ Returned("bucketHeartRateSamples") /\ Len(HrSamples) = 3
  /\ HrSamples[1] = [sample_time |-> <<23, 30>>, heart_rate |-> 60]
  /\ HrSamples[2] = [sample_time |-> <<23, 59>>, heart_rate |-> 75]
  /\ HrSamples[3].sample_time = <<0, 0>>
  /\ Len(callResult) = 2
  /\ callResult[2].min = Some(60) /\ callResult[2].max = Some(75)
  /\ callResult[2].avg = 68 /\ callResult[2].samples = 2

\* no sample at all: nothing is emitted
C12_EmptyWitness ==
  Returned("bucketHeartRateSamples") /\ HrSamples = <<>> /\ callResult = <<>>


\* ---- C13: computeZoneDurations ----

ZoneEvents == callArgs

Chronological(events) ==
  \A k \in 1..(Len(events) - 1) : events[k].timestamp <= events[k + 1].timestamp

\* the seconds between event k and the next one, for the events k but the
\* last whose zone is the given one
SecondsIn(events, zone) ==
  LET starts == {k \in 1..(Len(events) - 1) : events[k].zone = zone}
      delta == [k \in starts |-> events[k + 1].timestamp - events[k].timestamp]
      total[S \in SUBSET starts] ==
        IF S = {} THEN 0
        ELSE LET k == CHOOSE x \in S : TRUE IN delta[k] + total[S \ {k}]
  IN total[starts]

\* C13: for a chronologically ordered event list, each adjacent pair adds
\* its time delta to the category of the earlier event's zone when that zone
\* is SEDENTARY, LIGHT, MODERATE or VIGOROUS and to no category otherwise;
\* the final event starts no interval; the minutes reported per category
\* are the accumulated total rounded to the nearest minute; events (00:00
\* LIGHT), (00:10 MODERATE), (00:20 SLEEP) give light 10, moderate 10,
\* sedentary 0, vigorous 0.
C13_ZoneDurations ==
  (Returned("computeZoneDurations") /\ Chronological(ZoneEvents)) =>
    /\ callResult.sedentary_minutes = RoundDiv(SecondsIn(ZoneEvents, "SEDENTARY"), 60)
    /\ callResult.light_minutes = RoundDiv(SecondsIn(ZoneEvents, "LIGHT"), 60)
    /\ callResult.moderate_minutes = RoundDiv(SecondsIn(ZoneEvents, "MODERATE"), 60)
    /\ callResult.vigorous_minutes = RoundDiv(SecondsIn(ZoneEvents, "VIGOROUS"), 60)
    /\ (callResult.sedentary_minutes + callResult.light_minutes
          + callResult.moderate_minutes + callResult.vigorous_minutes) * 60
         <= (IF ZoneEvents = <<>> THEN 0
             ELSE ZoneEvents[Len(ZoneEvents)].timestamp - ZoneEvents[1].timestamp) + 60
    /\ Len(ZoneEvents) <= 1 => callResult = ZeroZones
    /\ ZoneEvents = <<[timestamp |-> 0, zone |-> "LIGHT"],
                      [timestamp |-> 600, zone |-> "MODERATE"],
                      [timestamp |-> 1200, zone |-> "SLEEP"]>> =>
         callResult = [sedentary_minutes |-> 0, light_minutes |-> 10,
                       moderate_minutes |-> 10, vigorous_minutes |-> 0]

\* the example of the claim
C13_Witness ==
  /\ Returned("computeZoneDurations")
  /\ ZoneEvents = <<[timestamp |-> 0, zone |-> "LIGHT"],
                    [timestamp |-> 600, zone |-> "MODERATE"],
                    [timestamp |-> 1200, zone |-> "SLEEP"]>>
  /\ callResult.light_minutes = 10 /\ callResult.moderate_minutes = 10

\* an interval started by a SLEEP event is counted nowhere
C13_SkippedWitness ==
  /\ Returned("computeZoneDurations")
  /\ ZoneEvents = <<[timestamp |-> 0, zone |-> "SLEEP"],
                    [timestamp |-> 600, zone |-> "VIGOROUS"],
                    [timestamp |-> 1230, zone |-> "VIGOROUS"]>>
  /\ callResult = [sedentary_minutes |-> 0, light_minutes |-> 0,
                   moderate_minutes |-> 0, vigorous_minutes |-> 11]


\* ---- C14, C15: processSpeedSplits ----

\* sample i is where the cumulative distance d crosses an integer kilometre
\* (the distance before the first sample is 0)
Crosses(d, idx) ==
  \E k \in 1..(d[idx] \div 1000) :
    (IF idx = 1 THEN 0 ELSE d[idx - 1]) < 1000 * k /\ 1000 * k <= d[idx]

Closers(d) == {idx \in 1..Len(d) : idx = Len(d) \/ Crosses(d, idx)}

\* the b-th smallest closing index
CloseAt(d, b) ==
  CHOOSE idx \in Closers(d) : Cardinality({j \in Closers(d) : j <= idx}) = b

MeanHundredths(series, from, to) ==
  RoundDiv(100 * SumSeq(SubSeq(series, from, to)), to - from + 1)

\* C14: with a non-empty cumulative distance series d and a speed series of
\* the same length, a split is closed at index i exactly when d crosses an
\* integer kilometre at i or i is the final sample; the splits' index
\* ranges are consecutive, disjoint and cover every index (each split
\* averages the speed samples from the index after the previous closing
\* index up to its own), and the splits are labelled 1, 2, 3, ...
C14_SplitAtEachKilometre ==
  (/\ Returned("processSpeedSplits")
   /\ IsSome(callArgs.distanceValues) /\ Val(callArgs.distanceValues) # <<>>
   /\ Len(callArgs.speedValues) = Len(Val(callArgs.distanceValues))) =>
    LET d == Val(callArgs.distanceValues)
        splits == Val(callResult).splits
    IN /\ Len(splits) = Cardinality(Closers(d))
       /\ \A b \in 1..Len(splits) :
            /\ splits[b].km = b
            /\ b <= Cardinality(Closers(d)) =>
                 splits[b].avg_speed_kmh =
                   MeanHundredths(callArgs.speedValues,
                                  IF b = 1 THEN 1 ELSE CloseAt(d, b - 1) + 1,
                                  CloseAt(d, b))

\* C15: with at least one usable speed sample and no distance channel,
\* exactly one split is emitted, labelled overall (km = 0), whose
\* avg_speed_kmh is the mean of all speed samples and whose pace is 60
\* divided by that mean, or 0 when the mean is 0.
C15_OverallSplit ==
  (Returned("processSpeedSplits") /\ callArgs.distanceValues = None) =>
    LET speed == callArgs.speedValues
        sum == SumSeq(speed)
    IN /\ IsSome(callResult)
       /\ Len(Val(callResult).splits) = 1
       /\ Val(callResult).splits[1].km = 0
       /\ SplitLabel(Val(callResult).splits[1].km) = <<"O", "v", "e", "r", "a", "l", "l">>
       /\ Val(callResult).splits[1].avg_speed_kmh = MeanHundredths(speed, 1, Len(speed))
       /\ Val(callResult).splits[1].pace_min_per_km =
            (IF sum = 0 THEN 0 ELSE RoundDiv(6000 * Len(speed), sum))

\* speeds 6 and 15 without distance: mean 10.50, pace 5.71
C15_Witness ==
  /\ Returned("processSpeedSplits") /\ callArgs.distanceValues = None
  /\ callArgs.speedValues = <<6, 15>>
  /\ Val(callResult).splits =
       <<[km |-> 0, pace_min_per_km |-> 571, avg_speed_kmh |-> 1050]>>

\* all speeds 0: pace 0
C15_ZeroWitness ==
  /\ Returned("processSpeedSplits") /\ callArgs.distanceValues = None
  /\ callArgs.speedValues = <<0, 0>>
  /\ Val(callResult).splits =
       <<[km |-> 0, pace_min_per_km |-> 0, avg_speed_kmh |-> 0]>>


\* ---- C16, C17: processPower ----

Fourth(x) == x * x * x * x

IsConstant(series) == \A k \in 1..Len(series) : series[k] = series[1]

\* C16: for a constant power series of value c > 0, of any length >= 1 and
\* at any recording interval, avg = c, normalized = c, max = c and
\* variability_index = 1.
C16_ConstantPower ==
  (/\ Returned("processPower")
   /\ IsConstant(callArgs.values) /\ callArgs.values[1] > 0) =>
    LET c == callArgs.values[1]
        power == Val(callResult)
    IN /\ power.avg_power = 100 * c
       /\ power.max_power = 100 * c
       /\ power.np4.den > 0 /\ power.np4.num = Fourth(c) * power.np4.den
       /\ power.vi4.den > 0 /\ power.vi4.num = power.vi4.den

\* four samples of 5 W every 15 s: two rolling windows of two samples
C16_Witness ==
  /\ Returned("processPower")
  /\ callArgs = [values |-> <<5, 5, 5, 5>>, recordingRate |-> 15]
  /\ Val(callResult).np4.rollingAvgs = 3
  /\ Val(callResult).avg_power = 500

\* ceil(30 / interval)
CeilWindow(interval) ==
  CHOOSE w \in 1..30 : w * interval >= 30 /\ (w - 1) * interval < 30

\* the sum of the w samples ending at index k
WindowTotal(series, w, k) == SumSeq([j \in 1..w |-> series[k - w + j]])

RECURSIVE SumOfFourths(_, _, _)
SumOfFourths(series, w, k) ==
  IF k > Len(series) THEN 0
  ELSE Fourth(WindowTotal(series, w, k)) + SumOfFourths(series, w, k + 1)

\* C17: with w = ceil(30 / interval), a series of fewer than w samples has
\* normalized = avg; otherwise exactly length - w + 1 rolling means are
\* taken, each over w consecutive samples, and normalized is the 4th root
\* of the mean of their 4th powers; variability_index = normalized / avg,
\* and 0 when avg is 0; nothing divides by zero for a non-empty series.
C17_RollingWindow ==
  Returned("processPower") =>
    LET series == callArgs.values
        n == Len(series)
        sum == SumSeq(series)
        w == CeilWindow(callArgs.recordingRate)
        power == Val(callResult)
    IN /\ IsSome(callResult)
       /\ power.np4.den > 0 /\ power.vi4.den > 0
       /\ n < w =>
            /\ power.np4.rollingAvgs = 0
            /\ power.np4.num * Fourth(n) = Fourth(sum) * power.np4.den
       /\ n >= w =>
            /\ power.np4.rollingAvgs = n - w + 1
            /\ power.np4.num * (Fourth(w) * (n - w + 1)) =
                 SumOfFourths(series, w, w) * power.np4.den
       /\ sum > 0 =>
            /\ power.vi4.num = power.np4.num * Fourth(n)
            /\ power.vi4.den = power.np4.den * Fourth(sum)
       /\ sum = 0 => power.vi4.num = 0

\* 1, 5, 2, 0 W every 15 s: w = 2, rolling sums 6, 7, 2
C17_Witness ==
  /\ Returned("processPower")
  /\ callArgs = [values |-> <<1, 5, 2, 0>>, recordingRate |-> 15]
  /\ Val(callResult).np4 = [num |-> 1296 + 2401 + 16, den |-> 16 * 3, rollingAvgs |-> 3]

\* two samples every second: fewer than the 30 of one window
C17_ShortWitness ==
  /\ Returned("processPower")
  /\ callArgs = [values |-> <<1, 5>>, recordingRate |-> 1]
  /\ Val(callResult).np4.rollingAvgs = 0

\* all samples 0 W: avg 0 and variability_index 0
C17_ZeroWitness ==
  /\ Returned("processPower")
  /\ callArgs = [values |-> <<0, 0, 0>>, recordingRate |-> 10]
  /\ Val(callResult).vi4 = [num |-> 0, den |-> 1]


\* ---- C18: processRrIntervals ----

\* h hundredths is sqrt(num / den) rounded to 2 decimals:
\* (h - 0.5)^2 <= num / den < (h + 0.5)^2
IsRoundedRoot(h, num, den) ==
  /\ h >= 0
  /\ h = 0 \/ (2 * h - 1) * (2 * h - 1) * den <= 40000 * num
  /\ 40000 * num < (2 * h + 1) * (2 * h + 1) * den

\* the successive differences of a series
Diffs(series) == [k \in 1..(Len(series) - 1) |-> series[k + 1] - series[k]]

Abs(x) == IF x < 0 THEN 0 - x ELSE x

\* n^2 times the population variance: the squared differences of all pairs
PairwiseSquares(series) ==
  SumSeq([a \in 1..Len(series) |->
           SumSeq([b \in 1..Len(series) |->
                    IF a < b THEN (series[a] - series[b]) * (series[a] - series[b])
                    ELSE 0])])

\* C18: for n >= 2 RR intervals, mean_rr is the arithmetic mean, sdnn the
\* population standard deviation (divisor n), rmssd the square root of the
\* mean of the n - 1 squared successive differences, and pnn50 is
\* 100 * (number of successive differences of absolute value above 50) /
\* (n - 1), each rounded to 2 decimals; a difference of exactly 50 is not
\* counted.
C18_HrvStatistics ==
  (Returned("processRrIntervals") /\ Len(callArgs) >= 2) =>
    LET n == Len(callArgs)
        diffs == Diffs(callArgs)
        hrv == Val(callResult)
    IN /\ IsSome(callResult)
       /\ hrv.mean_rr = RoundDiv(100 * SumSeq(callArgs), n)
       /\ IsRoundedRoot(hrv.sdnn, PairwiseSquares(callArgs), n * n)
       /\ IsRoundedRoot(hrv.rmssd, SumSeq([k \in 1..(n - 1) |-> diffs[k] * diffs[k]]), n - 1)
       /\ hrv.pnn50 =
            RoundDiv(100 * 100 * Cardinality({k \in 1..(n - 1) : Abs(diffs[k]) > 50}), n - 1)

\* 800, 810, 795, 805: mean 802.50, sdnn 5.59, rmssd 11.90, pnn50 0
C18_Witness ==
  /\ Returned("processRrIntervals")
  /\ callArgs = <<800, 810, 795, 805>>
  /\ Val(callResult) = [rmssd |-> 1190, sdnn |-> 559, mean_rr |-> 80250, pnn50 |-> 0]

\* a difference of exactly 50 is not counted, one of 51 is
C18_FiftyWitness ==
  /\ Returned("processRrIntervals")
  /\ callArgs = <<800, 850, 800, 851>>
  /\ Val(callResult).pnn50 = 3333

\* ---- C19: processAltitude ----

\* C19: for n >= 1 altitudes, ascent is the sum of the positive deltas,
\* descent the sum of the absolute values of the negative deltas, min and
\* max are those of the raw values, ascent - descent = last - first, and a
\* single sample gives ascent 0 and descent 0.
C19_AscentDescent ==
  (Returned("processAltitude") /\ Len(callArgs) >= 1) =>
    LET n == Len(callArgs)
        deltas == Diffs(callArgs)
        altitude == Val(callResult)
    IN /\ IsSome(callResult)
       /\ altitude.total_ascent =
            100 * SumSeq([k \in 1..(n - 1) |-> IF deltas[k] > 0 THEN deltas[k] ELSE 0])
       /\ altitude.total_descent =
            100 * SumSeq([k \in 1..(n - 1) |-> IF deltas[k] < 0 THEN Abs(deltas[k]) ELSE 0])
       /\ altitude.min_elevation \in {callArgs[k] : k \in 1..n}
       /\ \A k \in 1..n : altitude.min_elevation <= callArgs[k]
       /\ altitude.max_elevation \in {callArgs[k] : k \in 1..n}
       /\ \A k \in 1..n : altitude.max_elevation >= callArgs[k]
       /\ altitude.total_ascent - altitude.total_descent = 100 * (callArgs[n] - callArgs[1])
       /\ n = 1 => altitude.total_ascent = 0 /\ altitude.total_descent = 0

\* up 10, down 15, up 30: ascent 40, descent 15, net 25
C19_Witness ==
  /\ Returned("processAltitude")
  /\ callArgs = <<0, 10, -5, 25>>
  /\ Val(callResult) = [total_ascent |-> 4000, total_descent |-> 1500,
                        min_elevation |-> -5, max_elevation |-> 25]

C19_SingleWitness ==
  /\ Returned("processAltitude")
  /\ callArgs = <<10>>
  /\ Val(callResult).total_ascent = 0 /\ Val(callResult).total_descent = 0


\* ---- C20: aggregateHourlySteps ----

\* the hour of day written in a timestamp of the modelled two days
ClockHour(timestamp) ==
  CHOOSE h \in 0..23 : \E day \in 0..1 :
    day * 86400 + h * 3600 <= timestamp /\ timestamp < day * 86400 + (h + 1) * 3600

\* the steps of all samples stamped with hour h
HourTotal(samples, h) ==
  SumSeq([k \in 1..Len(samples) |->
           IF ClockHour(samples[k].timestamp) = h THEN samples[k].steps ELSE 0])

\* C20: the result holds one entry for each hour 0..23 whose step total is
\* positive, with steps equal to that total; hours of total zero are
\* omitted; the entries are in strictly ascending hour order; and when no
\* count is negative the emitted steps sum to the total of the input steps.
C20_HourlySteps ==
  Returned("aggregateHourlySteps") =>
    /\ \A h \in 0..23 :
         IF HourTotal(callArgs, h) > 0
           THEN /\ Cardinality({b \in DOMAIN callResult : callResult[b].hour = h}) = 1
                /\ \A b \in DOMAIN callResult :
                     callResult[b].hour = h => callResult[b].steps = HourTotal(callArgs, h)
           ELSE \A b \in DOMAIN callResult : callResult[b].hour # h
    /\ \A b \in DOMAIN callResult : callResult[b].hour \in 0..23
    /\ \A b \in 1..(Len(callResult) - 1) : callResult[b].hour < callResult[b + 1].hour
    /\ (\A k \in DOMAIN callArgs : callArgs[k].steps >= 0) =>
         SumSeq([b \in DOMAIN callResult |-> callResult[b].steps]) =
           SumSeq([k \in DOMAIN callArgs |-> callArgs[k].steps])

\* 01:00 of both days falls in hour 1; 23:00 comes first in the input and
\* last in the output; hour 0 has only a zero count and is omitted
C20_Witness ==
  /\ Returned("aggregateHourlySteps")
  /\ callArgs = <<[timestamp |-> 82800, steps |-> 5], [timestamp |-> 90000, steps |-> 5],
                  [timestamp |-> 5400, steps |-> 5]>>
  /\ callResult = <<[hour |-> 1, steps |-> 10], [hour |-> 23, steps |-> 5]>>

C20_ZeroWitness ==
  /\ Returned("aggregateHourlySteps")
  /\ callArgs = <<[timestamp |-> 0, steps |-> 0], [timestamp |-> 5400, steps |-> 5]>>
  /\ callResult = <<[hour |-> 1, steps |-> 5]>>


\* ---- C21..C24: computeSleepArchitecture ----

\* the normalized minutes of the k-th listed hypnogram point
PointMinutes(k) == parseSleepTime(callArgs.hypnogram[k].time, callArgs.sleepStartHour)

\* the listed index of the point that is k-th in normalized time
PointAt(k) ==
  CHOOSE a \in DOMAIN callArgs.hypnogram :
    Cardinality({b \in DOMAIN callArgs.hypnogram : PointMinutes(b) < PointMinutes(a)}) = k - 1

NumPoints == Len(callArgs.hypnogram)
StageAt(k) == callArgs.hypnogram[PointAt(k)].value
MinutesAt(k) == PointMinutes(PointAt(k))

\* C21: the sorted points form one segment per point except the last, and
\* time_to_first_deep_sleep_min is the minutes from the first point to the
\* start of the first deep-sleep (stage 4) segment, 0 when there is no
\* deep-sleep segment, also when only the final point has the deep stage.
C21_TimeToFirstDeep ==
  Returned("computeSleepArchitecture") =>
    LET deep == {k \in 1..(NumPoints - 1) : StageAt(k) = 4}
    IN callResult.time_to_first_deep_sleep_min =
         (IF deep = {} THEN 0
          ELSE MinutesAt(CHOOSE k \in deep : \A j \in deep : k <= j) - MinutesAt(1))

\* the deep stage at the final point only: the code reports the whole
\* night as the time to the first deep sleep
C21_FinalDeepWitness ==
  /\ Returned("computeSleepArchitecture")
  /\ callArgs.hypnogram = <<[time |-> <<23, 0>>, value |-> 2], [time |-> <<0, 15>>, value |-> 4]>>
  /\ callArgs.sleepStartHour = 22
  /\ callResult.time_to_first_deep_sleep_min = 75
  /\ callResult.deep_sleep_in_first_half_pct = 0

C22_FinalRemWitness ==
  /\ Returned("computeSleepArchitecture")
  /\ callArgs.hypnogram = <<[time |-> <<22, 30>>, value |-> 1], [time |-> <<23, 0>>, value |-> 4],
                            [time |-> <<0, 15>>, value |-> 1]>>
  /\ callArgs.sleepStartHour = 22
  /\ callResult.number_of_rem_cycles = 2

\* the seconds of light, deep and REM sleep the device reports
ReportedSleepSeconds ==
  SumSeq([k \in 1..3 |->
    LET field == <<callArgs.sleep.light_sleep, callArgs.sleep.deep_sleep,
                   callArgs.sleep.rem_sleep>>[k]
    IN IF field = None THEN 0 ELSE Val(field)])

\* C23: avg_cycle_length_min is the reported light + deep + REM minutes
\* divided by the cycle count, rounded; the cycle count is the device's
\* sleep_cycles whenever the device reports one, the REM heuristic only
\* when it reports none; a cycle count of 0 gives 0.
C23_AvgCycleLength ==
  Returned("computeSleepArchitecture") =>
    LET cycles == IF callArgs.sleep.sleep_cycles = None
                    THEN callResult.number_of_rem_cycles
                    ELSE Val(callArgs.sleep.sleep_cycles)
    IN callResult.avg_cycle_length_min =
         (IF cycles = 0 THEN 0 ELSE RoundDiv(ReportedSleepSeconds, 60 * cycles))

\* the device reports 0 cycles, the hypnogram has one REM run: the code
\* divides by the heuristic's count
C23_ZeroCyclesWitness ==
  /\ Returned("computeSleepArchitecture")
  /\ callArgs.sleep.sleep_cycles = Some(0)
  /\ callResult.number_of_rem_cycles = 1
  /\ callResult.avg_cycle_length_min > 0

\* twice the minutes that segment k (from point k to point k + 1) spends
\* before, and after, the midpoint of the night
Mid2 == MinutesAt(1) + MinutesAt(NumPoints)
Before2(k) == Max2(0, Min2(2 * MinutesAt(k + 1), Mid2) - 2 * MinutesAt(k))
After2(k) == Max2(0, 2 * MinutesAt(k + 1) - Max2(2 * MinutesAt(k), Mid2))
StageMinutes2(stage) ==
  SumSeq([k \in 1..(NumPoints - 1) |->
    IF StageAt(k) = stage THEN 2 * (MinutesAt(k + 1) - MinutesAt(k)) ELSE 0])

\* C24: deep_sleep_in_first_half_pct is the share of the deep-sleep time
\* that lies before the midpoint between the first and last point, a
\* segment across the midpoint counting only with its part before it;
\* rem_sleep_in_second_half_pct is the share of the REM time after the
\* midpoint; each is 0 when the stage has no time and lies in 0..100.
C24_HalfNightShares ==
  Returned("computeSleepArchitecture") =>
    LET deep2 == StageMinutes2(4)
        rem2 == StageMinutes2(1)
        deepBefore2 == SumSeq([k \in 1..(NumPoints - 1) |->
                         IF StageAt(k) = 4 THEN Before2(k) ELSE 0])
        remAfter2 == SumSeq([k \in 1..(NumPoints - 1) |->
                       IF StageAt(k) = 1 THEN After2(k) ELSE 0])
    IN /\ callResult.deep_sleep_in_first_half_pct =
            (IF deep2 = 0 THEN 0 ELSE RoundDiv(100 * deepBefore2, deep2))
       /\ callResult.rem_sleep_in_second_half_pct =
            (IF rem2 = 0 THEN 0 ELSE RoundDiv(100 * remAfter2, rem2))
       /\ callResult.deep_sleep_in_first_half_pct \in 0..100
       /\ callResult.rem_sleep_in_second_half_pct \in 0..100

\* deep 22:30-23:00 and 23:00-02:30 around the midpoint 00:30: 120 of the
\* 240 deep minutes lie before it
C24_Witness ==
  /\ Returned("computeSleepArchitecture")
  /\ callArgs.hypnogram = <<[time |-> <<22, 30>>, value |-> 4], [time |-> <<23, 0>>, value |-> 4],
                            [time |-> <<2, 30>>, value |-> 2]>>
  /\ callArgs.sleepStartHour = 22
  /\ callResult.deep_sleep_in_first_half_pct = 50

\* a night without REM time: 0 percent
C24_NoRemWitness ==
  /\ Returned("computeSleepArchitecture")
  /\ \A k \in 1..NumPoints : callArgs.hypnogram[k].value # 1
  /\ callResult.rem_sleep_in_second_half_pct = 0


\* ---- C26: computeZoneDurations rounds once ----

\* m is the whole minute nearest to a number of seconds (halves upwards)
NearestMinute(m, seconds) == 60 * m - 30 <= seconds /\ seconds < 60 * m + 30

\* C26: each category total is rounded once, after all intervals have been
\* accumulated: the reported minutes of a category are the nearest whole
\* minute of the sum of its interval durations, not the sum of the
\* individually rounded intervals (three 20-second LIGHT intervals give
\* light_minutes = 1).
C26_RoundedOnce ==
  (Returned("computeZoneDurations") /\ Chronological(callArgs)) =>
    /\ NearestMinute(callResult.light_minutes, SecondsIn(callArgs, "LIGHT"))
    /\ NearestMinute(callResult.moderate_minutes, SecondsIn(callArgs, "MODERATE"))
    /\ callResult.sedentary_minutes = 0 /\ callResult.vigorous_minutes = 0
    /\ (\A k \in DOMAIN callArgs :
          callArgs[k] = [timestamp |-> 20 * (k - 1), zone |-> "LIGHT"]) /\ Len(callArgs) = 4
         => callResult.light_minutes = 1

\* three LIGHT intervals of 20 seconds, each of which alone rounds to 0
C26_Witness ==
  /\ Returned("computeZoneDurations")
  /\ callArgs = <<[timestamp |-> 0, zone |-> "LIGHT"], [timestamp |-> 20, zone |-> "LIGHT"],
                  [timestamp |-> 40, zone |-> "LIGHT"], [timestamp |-> 60, zone |-> "SLEEP"]>>
  /\ RoundDiv(20, 60) = 0
  /\ callResult.light_minutes = 1


\* ---- C27: withRetry ----

\* the operation has been invoked attempt + 1 times when attempt is current
Attempts == attempt + 1

RetryEnded == retryPc \in {"returned", "thrown"}

RetryOnly429 ==
  mode = "retry" =>
    /\ attempt \in 0..MAX_RETRIES /\ Attempts <= 4
    \* a new attempt follows only a 429, and at most 3 times
    /\ retryPc = "sleep" =>
         /\ operation.error.status = Some(429) /\ attempt < 3
         /\ delay >= 0
    /\ (retryPc = "call" /\ attempt > 0) => lastError # None /\ Val(lastError).status = Some(429)
    \* any other failure, and a 429 on the 4th attempt, is rethrown as it is
    /\ retryPc = "thrown" =>
         /\ operation.kind = "rejected"
         /\ retrySettled = [kind |-> "thrown", error |-> operation.error]
         /\ operation.error.status # Some(429) \/ Attempts = 4
    /\ (retryPc = "caught" /\ operation.error.status # Some(429)) =>
         ~ENABLED BackOff /\ ENABLED Rethrow
    /\ (retryPc = "caught" /\ operation.error.status = Some(429)) =>
         (ENABLED Rethrow <=> Attempts = 4) /\ (ENABLED BackOff <=> Attempts < 4)
    \* a success is returned at once
    /\ retryPc = "returned" =>
         /\ operation.kind = "resolved"
         /\ retrySettled = [kind |-> "returned", value |-> operation.value]

\* C27: withRetry invokes the operation again only after a failure of
\* status 429, and at most 3 times (4 attempts in all); any other failure
\* is rethrown on the attempt where it occurs, a 429 on the 4th attempt is
\* rethrown, a success is returned at once; every call ends with a result
\* or an error after at most 4 attempts.
C27_RetryOn429Only == [](RetryOnly429) /\ <>(RetryEnded /\ Attempts <= 4)

\* three 429 answers, then a fourth that is rethrown
C27_Witness ==
  /\ mode = "retry" /\ retryPc = "thrown" /\ attempt = 3
  /\ operation.error.status = Some(429)
  /\ delay = 4000

\* a success on the third attempt
C27_LateSuccessWitness ==
  /\ mode = "retry" /\ retryPc = "returned" /\ attempt = 2
  /\ lastError # None


\* ---- C28: the order of getActivities' list ----

ProcessedDates == [k \in 1..Len(processed) |-> processed[k].date]

\* C28: the list getActivities returns holds each requested date at most
\* once and in ascending date order, whatever order the fetches of a batch
\* complete in and whichever dates fail; it holds exactly the dates whose
\* primary fetch succeeded.
C28_AscendingOnce ==
  (mode = "fetch" /\ pcMain = "done") =>
    /\ \A k \in 1..(Len(processed) - 1) : ProcessedDates[k] < ProcessedDates[k + 1]
    /\ \A a, b \in 1..Len(processed) : ProcessedDates[a] = ProcessedDates[b] => a = b
    /\ {ProcessedDates[k] : k \in 1..Len(processed)} =
         {dates[d] : d \in {e \in DOMAIN dates : primaryOutcome[e] = "ok"}}

\* two batches, with failed days between days that are listed
C28_Witness ==
  /\ mode = "fetch" /\ pcMain = "done" /\ Len(dates) = 6
  /\ primaryOutcome[2] = "fail" /\ primaryOutcome[5] = "fail"
  /\ ProcessedDates = <<1, 3, 4, 6>>

\* a later day of a batch has been fetched in full before an earlier one
C28_OutOfOrderWitness ==
  /\ mode = "fetch" /\ pcMain = "awaitAll" /\ Len(dates) >= 3
  /\ task[1] = "primary" /\ task[2] = "fulfilled" /\ task[3] = "samples"


\* ---- C29: the tool callback ----

Responded == mode = "tool" /\ toolPc = "responded"

\* the one text item of a response
ResponseText == toolResponse.content[1].text

ToolAnswers ==
  Responded =>
    /\ Len(toolResponse.content) = 1 /\ toolResponse.content[1].type = "text"
    /\ toolSettled.kind = "threw" =>
         /\ toolResponse.isError = Some(TRUE)
         /\ ResponseText[1] = "Error: "
         /\ Tail(ResponseText) = (IF toolSettled.thrown.isError
                                    THEN toolSettled.thrown.message
                                    ELSE toolSettled.thrown.value)
    /\ toolSettled.kind = "returned" =>
         /\ toolResponse.isError = None
         /\ ResponseText = toolSettled.result
    \* the handler is reached with validated arguments only
    /\ toolParsed # <<>> =>
         /\ toolParsed.format \in {"markdown", "json"}
         /\ toolParsed.from # None => MatchesDate(Val(toolParsed.from))
         /\ toolArgs.verbose = None
    /\ toolParsed = <<>> => toolSettled.kind = "threw"

\* C29: every invocation of a registered tool returns a response and lets
\* no error escape: when input validation or the handler throws, the
\* response has isError = true and the text "Error: " followed by the
\* message; when the handler succeeds, the response carries the handler's
\* text and no isError flag.
C29_AlwaysResponds == [](ToolAnswers) /\ <>(Responded)

\* a date that is not YYYY-MM-DD is refused by the schema
C29_Witness ==
  /\ Responded /\ toolDef = "polar_get_activities"
  /\ toolArgs.from # None /\ toolParsed = <<>>
  /\ toolResponse = [content |-> <<[type |-> "text",
                                    text |-> <<"Error: ", "Date must be in YYYY-MM-DD format">>]>>,
                     isError |-> Some(TRUE)]

\* the handler threw a value that is no Error
C29_ThrownValueWitness ==
  /\ Responded /\ toolParsed # <<>>
  /\ toolSettled.kind = "threw" /\ ~toolSettled.thrown.isError
  /\ ResponseText = <<"Error: ", "aborted">>

\* the handler's text, with the default format filled in
C29_SuccessWitness ==
  /\ Responded /\ toolArgs.format = None /\ toolParsed # <<>>
  /\ toolParsed.format = "markdown"
  /\ toolResponse = [content |-> <<[type |-> "text", text |-> <<"[]">>]>>, isError |-> None]


\* ---- C30: preprocessHeartRate ----

DayBuckets == callResult.buckets

\* C30: for a non-empty day of heart-rate samples with valid clock times,
\* the sample counts of the emitted buckets sum to total_samples, every
\* bucket has min <= avg <= max, daily_min is the minimum of the bucket
\* minima and daily_max the maximum of the bucket maxima.
C30_SamplesConserved ==
  (Returned("preprocessHeartRate") /\ callArgs.samples # <<>>) =>
    /\ callResult.total_samples = Len(callArgs.samples)
    /\ SumSeq([b \in 1..Len(DayBuckets) |-> DayBuckets[b].samples]) = callResult.total_samples
    /\ \A b \in 1..Len(DayBuckets) :
         /\ Val(DayBuckets[b].min) <= DayBuckets[b].avg
         /\ DayBuckets[b].avg <= Val(DayBuckets[b].max)
    /\ \E b \in 1..Len(DayBuckets) : callResult.daily_min = DayBuckets[b].min
    /\ \A b \in 1..Len(DayBuckets) : Val(callResult.daily_min) <= Val(DayBuckets[b].min)
    /\ \E b \in 1..Len(DayBuckets) : callResult.daily_max = DayBuckets[b].max
    /\ \A b \in 1..Len(DayBuckets) : Val(callResult.daily_max) >= Val(DayBuckets[b].max)

\* two samples in the first half hour, one in the last: two buckets, 2 + 1
C30_Witness ==
  /\ Returned("preprocessHeartRate")
  /\ callArgs.samples = <<[sample_time |-> <<0, 0>>, heart_rate |-> 75],
                          [sample_time |-> <<23, 59>>, heart_rate |-> 91],
                          [sample_time |-> <<0, 29>>, heart_rate |-> 60]>>
  /\ Len(DayBuckets) = 2
  /\ DayBuckets[1].samples = 2 /\ DayBuckets[1].avg = 68
  /\ callResult.daily_min = Some(60) /\ callResult.daily_max = Some(91)
  /\ callResult.total_samples = 3

====
